---- MODULE Spec2Model ----
(***************************************************************************)
(* food-reminder: availability monitoring (MonitoringService, the          *)
(* WooCommerceChecker, the JsonStateStore ledger) and the purchase command *)
(* (scripts/purchase_product.py, WooCommercePurchaser.checkout).           *)
(*                                                                         *)
(* Six specifications share the module:                                    *)
(*   Spec          check_and_notify runs over the configured products,     *)
(*                 with the operator's --clear-state between runs;         *)
(*   SpecLive      the same runs started again and again under fairness,   *)
(*                 without the operator;                                   *)
(*   SpecPurchase  invocations of the purchase command, the checkout       *)
(*                 handshake stepping from one network call to the next;   *)
(*   SpecChecker   calls of WooCommerceChecker.is_available, stepping from *)
(*                 one request to the next;                                *)
(*   SpecLedger    calls of the JsonStateStore methods on one state file,  *)
(*                 which may get corrupted between calls;                  *)
(*   SpecCalls     calls of get_earliest_delivery_date and of the          *)
(*                 notifier's send_success and send_error, one at a time.  *)
(***************************************************************************)
EXTENDS Integers, Sequences, FiniteSets, TLC

VARIABLES
    state_file,     \* the JSON mapping of the state file: url -> ISO timestamp
    now,            \* the wall clock read by datetime.now()
    mon_pc,         \* check_and_notify: "idle", "running", "done", "aborted"
    idx,            \* index in products of the product the loop handles next
    results,        \* the run's tally (results dict of check_and_notify)
    event,          \* what the last step did (calls made, ledger write)
    phase,          \* per url: where its notification streak stands
    first_ts,       \* per url: the clock at the notification that began the streak
    notify_failed,  \* urls whose notify raised NotificationError in this run
    purchases,      \* the ledger's purchase records: key -> {order_id, timestamp}
    pur_pc,         \* purchase command: position between network calls
    cur_key,        \* (product_id, variation_id) of the running invocation
    invocations,    \* invocations of the purchase command so far
    net_log,        \* network calls issued by the running checkout call, in order
    net_resp,       \* the response each call of net_log got, in the same order
    update_nonce,   \* the update_order_review nonce the session holds
    checkout_nonce, \* the checkout nonce the session holds
    pur_event,      \* what the last purchase invocation did and how it ended
    orders,         \* per key: checkouts that succeeded since the last clear
    chk_pc,         \* is_available: "idle", "fetch", "fetched", "probe",
                    \* "returned", "raised"
    cur_attempt,    \* _fetch_html: the loop variable attempt
    last_error,     \* _fetch_html: last_error
    chk_html,       \* the page _fetch_html returned
    chk_log,        \* what the running is_available call did, in order
    chk_out,        \* how the is_available call ended
    led_file,       \* the state file as it is on disk
    led_hist,       \* the ledger calls made so far, with what each answered
    last_call,      \* the last delivery-date or notifier call and its outcome
    calls_made      \* how many such calls were made

mon_vars == <<state_file, now, mon_pc, idx, results, event, phase, first_ts,
              notify_failed>>
pur_vars == <<purchases, pur_pc, cur_key, invocations, net_log, net_resp,
              update_nonce, checkout_nonce, pur_event, orders>>
chk_vars == <<chk_pc, cur_attempt, last_error, chk_html, chk_log, chk_out>>
led_vars == <<led_file, led_hist>>
cal_vars == <<last_call, calls_made>>
vars == <<mon_vars, pur_vars, chk_vars, led_vars, cal_vars>>

None == "None"

(***************************************************************************)
(* Bounds of the model.                                                    *)
(***************************************************************************)
NumProducts == 2
MaxRuns == 3
MaxInvocations == 3
MaxOps == 3
MaxLiveClock == 1

\* WooCommerceChecker.__init__: max_retries defaults to 3
max_retries == 3

\* WooCommerceChecker.__init__: retry_delay defaults to 2 (seconds)
retry_delay == 2

URLs == 1..NumProducts
\* config.products: one ProductConfig per url, in configuration order
products == [i \in 1..NumProducts |-> i]

(***************************************************************************)
(* JsonStateStore: the notification ledger.                                *)
(***************************************************************************)
\* datetime.isoformat(): the stored value is the ISO-8601 text of the datetime
isoformat(timestamp) == <<"iso8601", timestamp>>

was_notified(state, product_url) == product_url \in DOMAIN state

\* mark_notified keeping the value of a url it already holds
mark_notified_keeps_first(state, product_url, timestamp) ==
    [k \in DOMAIN state \cup {product_url} |->
        IF k \in DOMAIN state THEN state[k] ELSE isoformat(timestamp)]

mark_notified(state, product_url, timestamp) ==
    [k \in DOMAIN state \cup {product_url} |->
        IF k = product_url THEN isoformat(timestamp) ELSE state[k]]

\* clear_notification dropping every record
clear_notification_all(state, product_url) ==
    IF product_url \in DOMAIN state THEN <<>> ELSE state

clear_notification(state, product_url) ==
    IF product_url \in DOMAIN state
    THEN [k \in DOMAIN state \ {product_url} |-> state[k]]
    ELSE state

\* clear_notification rewriting the file whether or not it held the url
clear_always_writes(state, product_url) == TRUE

\* whether clear_notification rewrites the file (the write is inside the if)
clear_writes(state, product_url) == product_url \in DOMAIN state

(***************************************************************************)
(* JsonStateStore on its file.  The file is "json" (a JSON object, `state` *)
(* its mapping), "corrupt" (text json.load rejects), "undecodable" (bytes  *)
(* that are not UTF-8) or "missing".                                       *)
(***************************************************************************)
JsonFile(state) == [kind |-> "json", state |-> state]
DamagedFile(kind) == [kind |-> kind, state |-> <<>>]

\* the timestamps a caller passes, and the value standing for timestamp=None
Times == {1, 2}
NoTimestamp == 0

\* json.dump of the mapping, truncating the file first
_write_state(state) == JsonFile(state)

\* open(..., encoding="utf-8") and json.load: only json.JSONDecodeError is
\* caught and answered with {}
_read_state(file) ==
    IF file.kind = "json" THEN [state |-> file.state, raised |-> None]
    ELSE IF file.kind = "corrupt" THEN [state |-> <<>>, raised |-> None]
    ELSE IF file.kind = "undecodable"
    THEN [state |-> <<>>, raised |-> "UnicodeDecodeError"]
    ELSE [state |-> <<>>, raised |-> "FileNotFoundError"]

\* _ensure_file_exists writing the empty mapping whatever the file holds
ensure_file_reset(file) == _write_state(<<>>)

_ensure_file_exists(file) ==
    IF file.kind = "missing" THEN _write_state(<<>>) ELSE file

\* what a ledger call did: the file it left, what it returned or raised, and
\* whether it wrote the file
Done(file, value, raised, wrote) ==
    [file |-> file, value |-> value, raised |-> raised, wrote |-> wrote]

\* JsonStateStore(file_path)
store_open(file) ==
    Done(_ensure_file_exists(file), None, None, file.kind = "missing")

\* JsonStateStore.was_notified
store_was_notified(file, product_url) ==
    LET r == _read_state(file) IN
    IF r.raised # None THEN Done(file, None, r.raised, FALSE)
    ELSE Done(file, IF was_notified(r.state, product_url) THEN "True" ELSE "False",
              None, FALSE)

\* JsonStateStore.mark_notified; clock is what datetime.now() answers
store_mark_notified(file, product_url, timestamp, clock) ==
    LET ts == IF timestamp = NoTimestamp THEN clock ELSE timestamp
        r == _read_state(file)
    IN  IF r.raised # None THEN Done(file, None, r.raised, FALSE)
        ELSE Done(_write_state(mark_notified(r.state, product_url, ts)),
                  None, None, TRUE)

\* JsonStateStore.clear_notification
store_clear_notification(file, product_url) ==
    LET r == _read_state(file) IN
    IF r.raised # None THEN Done(file, None, r.raised, FALSE)
    ELSE IF clear_writes(r.state, product_url)
    THEN Done(_write_state(clear_notification(r.state, product_url)),
              None, None, TRUE)
    ELSE Done(file, None, None, FALSE)

\* an entry of led_hist
LedgerCall(op, url, ts, done) ==
    [op |-> op, url |-> url, ts |-> ts, value |-> done.value,
     raised |-> done.raised, wrote |-> done.wrote]

\* a store is constructed on the file
LedgerOpen ==
    /\ Len(led_hist) < MaxOps
    /\ LET done == store_open(led_file)
       IN /\ led_file' = done.file
          /\ led_hist' = Append(led_hist, LedgerCall("open", 0, NoTimestamp, done))

LedgerWasNotified ==
    /\ Len(led_hist) < MaxOps
    /\ \E u \in URLs :
         LET done == store_was_notified(led_file, u)
         IN /\ led_file' = done.file
            /\ led_hist' = Append(led_hist,
                                  LedgerCall("was_notified", u, NoTimestamp, done))

LedgerMarkNotified ==
    /\ Len(led_hist) < MaxOps
    /\ \E u \in URLs, timestamp \in Times \cup {NoTimestamp}, clock \in Times :
         LET done == store_mark_notified(led_file, u, timestamp, clock)
         IN /\ led_file' = done.file
            /\ led_hist' = Append(led_hist,
                  LedgerCall("mark_notified", u,
                             IF timestamp = NoTimestamp THEN clock ELSE timestamp,
                             done))

LedgerClearNotification ==
    /\ Len(led_hist) < MaxOps
    /\ \E u \in URLs :
         LET done == store_clear_notification(led_file, u)
         IN /\ led_file' = done.file
            /\ led_hist' = Append(led_hist,
                                  LedgerCall("clear_notification", u, NoTimestamp, done))

\* between two calls the file is damaged: overwritten by text that is not
\* JSON, or cut inside a multi-byte character
LedgerCorrupt ==
    /\ Len(led_hist) < MaxOps
    /\ \E kind \in {"corrupt", "undecodable"} :
         /\ led_file' = DamagedFile(kind)
         /\ led_hist' = Append(led_hist,
                               LedgerCall(kind, 0, NoTimestamp,
                                          Done(led_file, None, None, FALSE)))

(***************************************************************************)
(* WooCommerceChecker.  A site is what the server answers during one       *)
(* is_available call: the outcome of each GET attempt, the page as far as  *)
(* the checker's patterns read it, and the answer to the add-to-cart POST. *)
(***************************************************************************)
\* container: a <div id="product-N" class="..."> tag; outofstock, instock:
\* its class string contains the token; add_to_cart: the value of the
\* add-to-cart control, None without one; wrapper: the page holds an
\* out_of_stock_wrapper element (no pattern of the checker reads it)
Htmls == {h \in [container : BOOLEAN, outofstock : BOOLEAN, instock : BOOLEAN,
                 add_to_cart : {None, "3316"}, wrapper : BOOLEAN] :
            ~h.container => (~h.outofstock /\ ~h.instock)}

\* the error indicators of _attempt_add_to_cart
error_indicators == {"cannot add", "out of stock", "woocommerce-error",
                     "product is unavailable"}

\* the body of the POST's response as the occurrences of the indicators in
\* it, each with the letter case it is written in
ProbeBodies ==
    {{}} \cup {{<<p, "lower">>} : p \in error_indicators}
         \cup {{<<"out of stock", "mixed">>}}

\* response.text.lower()
text_lower(text) == {<<o[1], "lower">> : o \in text}

\* the for loop over error_indicators: indicator in response_text
found_indicator(probe) ==
    \E indicator \in error_indicators :
        <<indicator, "lower">> \in text_lower(probe.body)

\* transport "error": the POST raised a requests.RequestException and there
\* is no response; redirect_cart: the status is 302 and Location holds "cart"
Probes == {p \in [transport : {"ok", "error"}, body : ProbeBodies,
                  redirect_cart : BOOLEAN] :
             p.transport = "error" => (p.body = {} /\ ~p.redirect_cart)}

Sites == [attempts : [1..max_retries -> {"ok", "fail"}],
          html : Htmls,
          probe : Probes]

\* the retry loop of _fetch_html, from attempt number `attempt` (0-based)
RECURSIVE fetch_loop(_, _)
fetch_loop(attempts, attempt) ==
    IF attempt >= max_retries
    THEN [raised |-> "CheckerError", gets |-> attempt]
    ELSE IF attempts[attempt + 1] = "ok"
         THEN [raised |-> None, gets |-> attempt + 1]
         ELSE fetch_loop(attempts, attempt + 1)

_fetch_html(attempts) == fetch_loop(attempts, 0)

\* the class check taking a container without either token for in stock
check_product_class_default_instock(html) ==
    IF ~html.container THEN None
    ELSE IF html.outofstock THEN "False"
    ELSE "True"

\* the class check testing instock before outofstock
check_product_class_instock_first(html) ==
    IF ~html.container THEN None
    ELSE IF html.instock THEN "True"
    ELSE IF html.outofstock THEN "False"
    ELSE None

\* "False" out of stock, "True" in stock, None unknown
_check_product_class(html) ==
    IF ~html.container THEN None
    ELSE IF html.outofstock THEN "False"
    ELSE IF html.instock THEN "True"
    ELSE None

\* the product id of the add-to-cart control, None without one
_extract_product_data(html) == html.add_to_cart

\* _attempt_add_to_cart taking every answer but a plain 200 for a failure
attempt_add_to_cart_no_redirect(product_data, probe) ==
    IF product_data = None THEN [value |-> None, raised |-> "TypeError", post |-> FALSE]
    ELSE IF probe.transport = "error" THEN [value |-> "False", raised |-> None, post |-> TRUE]
    ELSE IF found_indicator(probe) \/ probe.redirect_cart
    THEN [value |-> "False", raised |-> None, post |-> TRUE]
    ELSE [value |-> "True", raised |-> None, post |-> TRUE]

\* _attempt_add_to_cart letting the transport error of the POST out as
\* CheckerError
attempt_add_to_cart_raising(product_data, probe) ==
    IF product_data = None THEN [value |-> None, raised |-> "TypeError", post |-> FALSE]
    ELSE IF probe.transport = "error" THEN [value |-> None, raised |-> "CheckerError", post |-> TRUE]
    ELSE IF found_indicator(probe) THEN [value |-> "False", raised |-> None, post |-> TRUE]
    ELSE [value |-> "True", raised |-> None, post |-> TRUE]

\* _attempt_add_to_cart taking a POST that failed in transport for available
attempt_add_to_cart_optimistic(product_data, probe) ==
    IF product_data = None THEN [value |-> None, raised |-> "TypeError", post |-> FALSE]
    ELSE IF probe.transport = "error" THEN [value |-> "True", raised |-> None, post |-> TRUE]
    ELSE IF found_indicator(probe) THEN [value |-> "False", raised |-> None, post |-> TRUE]
    ELSE [value |-> "True", raised |-> None, post |-> TRUE]

\* _attempt_add_to_cart looking at the redirect before the error indicators
attempt_add_to_cart_redirect_first(product_data, probe) ==
    IF product_data = None THEN [value |-> None, raised |-> "TypeError", post |-> FALSE]
    ELSE IF probe.transport = "error" THEN [value |-> "False", raised |-> None, post |-> TRUE]
    ELSE IF probe.redirect_cart THEN [value |-> "True", raised |-> None, post |-> TRUE]
    ELSE IF found_indicator(probe) THEN [value |-> "False", raised |-> None, post |-> TRUE]
    ELSE [value |-> "True", raised |-> None, post |-> TRUE]

\* product_data['product_id'] on None raises TypeError inside the try, which
\* catches requests.RequestException only
_attempt_add_to_cart(product_data, probe) ==
    IF product_data = None THEN [value |-> None, raised |-> "TypeError", post |-> FALSE]
    ELSE IF probe.transport = "error" THEN [value |-> "False", raised |-> None, post |-> TRUE]
    ELSE IF found_indicator(probe) THEN [value |-> "False", raised |-> None, post |-> TRUE]
    ELSE [value |-> "True", raised |-> None, post |-> TRUE]

is_available(site) ==
    LET fetched == _fetch_html(site.attempts) IN
    IF fetched.raised # None
    THEN [value |-> None, raised |-> "CheckerError", gets |-> fetched.gets,
          post |-> FALSE, probe_failed |-> FALSE]
    ELSE IF _check_product_class(site.html) = "False"
    THEN [value |-> "False", raised |-> None, gets |-> fetched.gets,
          post |-> FALSE, probe_failed |-> FALSE]
    ELSE LET can_add == _attempt_add_to_cart(_extract_product_data(site.html), site.probe)
         IN [value |-> can_add.value, raised |-> can_add.raised,
             gets |-> fetched.gets, post |-> can_add.post,
             probe_failed |-> can_add.post /\ site.probe.transport = "error"]

(***************************************************************************)
(* is_available request by request: each GET attempt of _fetch_html, the   *)
(* class check and the extraction, the add-to-cart POST.                   *)
(***************************************************************************)
\* how a GET attempt ends: a response with a success status, a transport
\* error, or an HTTP error status (raise_for_status)
GetEnds == {"ok", "transport", "http"}

\* an entry of chk_log: "GET" and "POST" with how the request ended, "sleep"
\* with the seconds slept, "extract" for a call of _extract_product_data
Ev(op, end, secs) == [op |-> op, end |-> end, secs |-> secs]

NoError == [end |-> None, attempt |-> 0]
NoHtml == [container |-> FALSE, outofstock |-> FALSE, instock |-> FALSE,
           add_to_cart |-> None, wrapper |-> FALSE]
NoProbe == [transport |-> None, body |-> {}, redirect_cart |-> FALSE]
NoOutcome == [value |-> None, raised |-> None, error |-> NoError,
              probe |-> NoProbe, signal |-> "unset"]

\* one iteration of the loop of _fetch_html sleeping after every failure
fetch_attempt_always_sleeps(att, end, last) ==
    IF end = "ok"
    THEN [returns |-> TRUE, last_error |-> last, sleeps |-> FALSE]
    ELSE [returns |-> FALSE, last_error |-> [end |-> end, attempt |-> att + 1],
          sleeps |-> TRUE]

\* one iteration of the loop of _fetch_html: the GET of attempt att (from 0)
\* ended with `end`
fetch_attempt(att, end, last) ==
    IF end = "ok"
    THEN [returns |-> TRUE, last_error |-> last, sleeps |-> FALSE]
    ELSE [returns |-> FALSE, last_error |-> [end |-> end, attempt |-> att + 1],
          sleeps |-> att < max_retries - 1]

\* a call of is_available begins
IsAvailableStart ==
    /\ chk_pc \in {"idle", "returned", "raised"}
    /\ chk_pc' = "fetch"
    /\ cur_attempt' = 0
    /\ last_error' = NoError
    /\ chk_html' = NoHtml
    /\ chk_log' = <<>>
    /\ chk_out' = NoOutcome

\* _fetch_html: one GET attempt; a response ends the loop, a failure of the
\* last attempt leaves the loop and raises CheckerError with last_error
FetchAttempt ==
    /\ chk_pc = "fetch"
    /\ cur_attempt < max_retries
    /\ \E end \in GetEnds :
         LET it == fetch_attempt(cur_attempt, end, last_error)
             got == Append(chk_log, Ev("GET", end, 0))
         IN /\ chk_log' = IF it.sleeps
                          THEN Append(got, Ev("sleep", None, retry_delay))
                          ELSE got
            /\ last_error' = it.last_error
            /\ IF it.returns
               THEN /\ \E html \in Htmls : chk_html' = html
                    /\ chk_pc' = "fetched"
                    /\ UNCHANGED <<cur_attempt, chk_out>>
               ELSE IF cur_attempt + 1 < max_retries
               THEN /\ cur_attempt' = cur_attempt + 1
                    /\ UNCHANGED <<chk_pc, chk_html, chk_out>>
               ELSE /\ cur_attempt' = cur_attempt + 1
                    /\ chk_pc' = "raised"
                    /\ chk_out' = [NoOutcome EXCEPT !.raised = "CheckerError",
                                                    !.error = it.last_error]
                    /\ UNCHANGED chk_html

\* is_available after _fetch_html returned: the class check, and unless it
\* says out of stock, _extract_product_data
CheckClass ==
    /\ chk_pc = "fetched"
    /\ IF _check_product_class(chk_html) = "False"
       THEN /\ chk_pc' = "returned"
            /\ chk_out' = [NoOutcome EXCEPT !.value = "False", !.signal = "False"]
            /\ UNCHANGED chk_log
       ELSE /\ chk_pc' = "probe"
            /\ chk_log' = Append(chk_log, Ev("extract", None, 0))
            /\ chk_out' = [NoOutcome EXCEPT
                             !.signal = _check_product_class(chk_html)]
    /\ UNCHANGED <<cur_attempt, last_error, chk_html>>

\* _attempt_add_to_cart with the extracted product data
AttemptAddToCart ==
    /\ chk_pc = "probe"
    /\ \E probe \in Probes :
         LET can_add == _attempt_add_to_cart(_extract_product_data(chk_html), probe)
         IN /\ chk_log' = IF can_add.post
                          THEN Append(chk_log, Ev("POST", probe.transport, 0))
                          ELSE chk_log
            /\ chk_out' = [chk_out EXCEPT
                             !.value = can_add.value, !.raised = can_add.raised,
                             !.probe = IF can_add.post THEN probe ELSE NoProbe]
            /\ chk_pc' = IF can_add.raised = None THEN "returned" ELSE "raised"
    /\ UNCHANGED <<cur_attempt, last_error, chk_html>>

(***************************************************************************)
(* MonitoringService.                                                      *)
(***************************************************************************)
NotifyOutcomes == {"ok", "NotificationError"}

ZeroResults == [checked |-> 0, available |-> 0, notified |-> 0,
                already_notified |-> 0, errors |-> 0]

\* _handle_available_product without the was_notified guard
handle_available_unguarded(state, res, product_url, notify_outcome, timestamp) ==
    IF notify_outcome = "NotificationError"
    THEN [state |-> state, results |-> res,
          notify |-> "error", write |-> "none", raised |-> "NotificationError"]
    ELSE [state |-> mark_notified(state, product_url, timestamp),
          results |-> [res EXCEPT !.notified = @ + 1],
          notify |-> "ok", write |-> "mark", raised |-> None]

\* _handle_available_product marking before it notifies
handle_available_mark_first(state, res, product_url, notify_outcome, timestamp) ==
    IF was_notified(state, product_url)
    THEN [state |-> state,
          results |-> [res EXCEPT !.already_notified = @ + 1],
          notify |-> "none", write |-> "none", raised |-> None]
    ELSE IF notify_outcome = "NotificationError"
    THEN [state |-> mark_notified(state, product_url, timestamp), results |-> res,
          notify |-> "error", write |-> "mark", raised |-> "NotificationError"]
    ELSE [state |-> mark_notified(state, product_url, timestamp),
          results |-> [res EXCEPT !.notified = @ + 1],
          notify |-> "ok", write |-> "mark", raised |-> None]

\* _handle_available_product refreshing the timestamp of a notified product
handle_available_refresh(state, res, product_url, notify_outcome, timestamp) ==
    IF was_notified(state, product_url)
    THEN [state |-> mark_notified(state, product_url, timestamp),
          results |-> [res EXCEPT !.already_notified = @ + 1],
          notify |-> "none", write |-> "mark", raised |-> None]
    ELSE IF notify_outcome = "NotificationError"
    THEN [state |-> state, results |-> res,
          notify |-> "error", write |-> "none", raised |-> "NotificationError"]
    ELSE [state |-> mark_notified(state, product_url, timestamp),
          results |-> [res EXCEPT !.notified = @ + 1],
          notify |-> "ok", write |-> "mark", raised |-> None]

\* _handle_available_product counting the notification before it is sent
handle_available_counts_first(state, res, product_url, notify_outcome, timestamp) ==
    IF was_notified(state, product_url)
    THEN [state |-> state,
          results |-> [res EXCEPT !.already_notified = @ + 1],
          notify |-> "none", write |-> "none", raised |-> None]
    ELSE IF notify_outcome = "NotificationError"
    THEN [state |-> state, results |-> [res EXCEPT !.notified = @ + 1],
          notify |-> "error", write |-> "none", raised |-> "NotificationError"]
    ELSE [state |-> mark_notified(state, product_url, timestamp),
          results |-> [res EXCEPT !.notified = @ + 1],
          notify |-> "ok", write |-> "mark", raised |-> None]

\* _handle_available_product returning after notify, without mark_notified
handle_available_no_mark(state, res, product_url, notify_outcome, timestamp) ==
    IF was_notified(state, product_url)
    THEN [state |-> state,
          results |-> [res EXCEPT !.already_notified = @ + 1],
          notify |-> "none", write |-> "none", raised |-> None]
    ELSE IF notify_outcome = "NotificationError"
    THEN [state |-> state, results |-> res,
          notify |-> "error", write |-> "none", raised |-> "NotificationError"]
    ELSE [state |-> state,
          results |-> [res EXCEPT !.notified = @ + 1],
          notify |-> "ok", write |-> "none", raised |-> None]

\* notify_outcome: what SlackNotifier.notify does if it is called
_handle_available_product(state, res, product_url, notify_outcome, timestamp) ==
    IF was_notified(state, product_url)
    THEN [state |-> state,
          results |-> [res EXCEPT !.already_notified = @ + 1],
          notify |-> "none", write |-> "none", raised |-> None]
    ELSE IF notify_outcome = "NotificationError"
    THEN [state |-> state, results |-> res,
          notify |-> "error", write |-> "none", raised |-> "NotificationError"]
    ELSE [state |-> mark_notified(state, product_url, timestamp),
          results |-> [res EXCEPT !.notified = @ + 1],
          notify |-> "ok", write |-> "mark", raised |-> None]

\* _handle_unavailable_product leaving the record in place
handle_unavailable_keep(state, product_url) == [state |-> state, write |-> "none"]

_handle_unavailable_product(state, product_url) ==
    IF was_notified(state, product_url)
    THEN [state |-> clear_notification(state, product_url),
          write |-> IF clear_writes(state, product_url) THEN "clear" ELSE "none"]
    ELSE [state |-> state, write |-> "none"]

\* which exceptions the loop body of check_and_notify catches
caught_in_loop(raised) == raised \in {"CheckerError", "NotificationError"}

\* what is_available can answer, over every site
Availabilities == {is_available(site) : site \in Sites}

\* the loop body taking a CheckerError for an observation of unavailable
check_product_error_clears(state, res, product_url, avail, notify_outcome, timestamp) ==
    LET res1 == [res EXCEPT !.checked = @ + 1]
    IN  IF avail.raised # None
        THEN [state |-> _handle_unavailable_product(state, product_url).state,
              results |-> IF caught_in_loop(avail.raised)
                          THEN [res1 EXCEPT !.errors = @ + 1] ELSE res1,
              avail |-> avail.raised, notify |-> "none",
              write |-> _handle_unavailable_product(state, product_url).write,
              probe_failed |-> FALSE,
              uncaught |-> ~caught_in_loop(avail.raised)]
        ELSE IF avail.value = "True"
        THEN LET h == _handle_available_product(
                          state, [res1 EXCEPT !.available = @ + 1],
                          product_url, notify_outcome, timestamp)
             IN [state |-> h.state,
                 results |-> IF h.raised # None /\ caught_in_loop(h.raised)
                             THEN [h.results EXCEPT !.errors = @ + 1]
                             ELSE h.results,
                 avail |-> "True", notify |-> h.notify, write |-> h.write,
                 probe_failed |-> avail.probe_failed,
                 uncaught |-> h.raised # None /\ ~caught_in_loop(h.raised)]
        ELSE LET h == _handle_unavailable_product(state, product_url)
             IN [state |-> h.state, results |-> res1,
                 avail |-> "False", notify |-> "none", write |-> h.write,
                 probe_failed |-> avail.probe_failed,
                 uncaught |-> FALSE]

\* one iteration of the for loop of check_and_notify; avail is what
\* self.checker.is_available answers
check_product(state, res, product_url, avail, notify_outcome, timestamp) ==
    LET res1 == [res EXCEPT !.checked = @ + 1]
    IN  IF avail.raised # None
        THEN [state |-> state,
              results |-> IF caught_in_loop(avail.raised)
                          THEN [res1 EXCEPT !.errors = @ + 1] ELSE res1,
              avail |-> avail.raised, notify |-> "none", write |-> "none",
              probe_failed |-> FALSE,
              uncaught |-> ~caught_in_loop(avail.raised)]
        ELSE IF avail.value = "True"
        THEN LET h == _handle_available_product(
                          state, [res1 EXCEPT !.available = @ + 1],
                          product_url, notify_outcome, timestamp)
             IN [state |-> h.state,
                 results |-> IF h.raised # None /\ caught_in_loop(h.raised)
                             THEN [h.results EXCEPT !.errors = @ + 1]
                             ELSE h.results,
                 avail |-> "True", notify |-> h.notify, write |-> h.write,
                 probe_failed |-> avail.probe_failed,
                 uncaught |-> h.raised # None /\ ~caught_in_loop(h.raised)]
        ELSE LET h == _handle_unavailable_product(state, product_url)
             IN [state |-> h.state, results |-> res1,
                 avail |-> "False", notify |-> "none", write |-> h.write,
                 probe_failed |-> avail.probe_failed,
                 uncaught |-> FALSE]

NoEvent == [op |-> "none", url |-> 0, avail |-> None, notify |-> "none",
            write |-> "none", probe_failed |-> FALSE]

\* phase of a url: "fresh" never notified (or cleared by the operator),
\* "failed" its notify raised and none succeeded yet, "notified" notified,
\* "recovered" notified after a failed notify, "cleared" observed unavailable
\* after a notification, "renotified" notified again after that
InStreak(ph) == ph \in {"notified", "recovered", "renotified"}

\* scripts/check_availability.py without --clear-state: a run begins
RunStart ==
    /\ mon_pc \in {"idle", "done", "aborted"}
    /\ now < MaxRuns
    /\ now' = now + 1
    /\ mon_pc' = "running"
    /\ idx' = 1
    /\ results' = ZeroResults
    /\ notify_failed' = {}
    /\ event' = [NoEvent EXCEPT !.op = "start"]
    /\ UNCHANGED <<state_file, phase, first_ts>>

\* a run begins, as often as the scheduler starts one; the model's clock
\* stops at MaxLiveClock and later runs read the same time
RunStartLive ==
    /\ mon_pc \in {"idle", "done", "aborted"}
    /\ now' = IF now < MaxLiveClock THEN now + 1 ELSE now
    /\ mon_pc' = "running"
    /\ idx' = 1
    /\ results' = ZeroResults
    /\ notify_failed' = {}
    /\ event' = [NoEvent EXCEPT !.op = "start"]
    /\ UNCHANGED <<state_file, phase, first_ts>>

\* the loop handles products[idx]; after the last product the summary is
\* logged and the run is done; an exception the loop does not catch ends it
CheckProduct ==
    /\ mon_pc = "running"
    /\ idx <= NumProducts
    /\ \E out \in {check_product(state_file, results, products[idx], avail,
                                  notify_outcome, now) :
                        avail \in Availabilities, notify_outcome \in NotifyOutcomes} :
         LET u == products[idx]
         IN /\ state_file' = out.state
            /\ results' = out.results
            /\ event' = [op |-> "check", url |-> u, avail |-> out.avail,
                         notify |-> out.notify, write |-> out.write,
                         probe_failed |-> out.probe_failed]
            /\ mon_pc' = IF out.uncaught THEN "aborted"
                         ELSE IF idx = NumProducts THEN "done" ELSE "running"
            /\ idx' = IF out.uncaught THEN idx ELSE idx + 1
            /\ phase' = [phase EXCEPT ![u] =
                           IF out.notify = "ok"
                           THEN (IF @ = "cleared" THEN "renotified"
                                 ELSE IF @ = "failed" THEN "recovered"
                                 ELSE "notified")
                           ELSE IF out.avail = "False" /\ InStreak(@) THEN "cleared"
                           ELSE IF out.notify = "error" /\ @ = "fresh" THEN "failed"
                           ELSE @]
            /\ first_ts' = [first_ts EXCEPT ![u] =
                              IF out.notify = "ok" /\ ~InStreak(phase[u])
                              THEN now ELSE @]
            /\ notify_failed' = IF out.notify = "error"
                                THEN notify_failed \cup {u} ELSE notify_failed
    /\ UNCHANGED now

\* scripts/check_availability.py --clear-state URL, between runs
ClearState ==
    /\ mon_pc \in {"idle", "done", "aborted"}
    /\ \E u \in URLs :
         /\ state_file' = clear_notification(state_file, u)
         /\ event' = [NoEvent EXCEPT !.op = "operator_clear", !.url = u,
                        !.write = IF clear_writes(state_file, u) THEN "clear" ELSE "none"]
         /\ phase' = [phase EXCEPT ![u] = "fresh"]
    /\ UNCHANGED <<now, mon_pc, idx, results, first_ts, notify_failed>>


(***************************************************************************)
(* The ledger's purchase records (has_purchased, mark_purchased,           *)
(* get_purchase_info, clear_purchase), keyed by (product_id, variation_id).*)
(***************************************************************************)
Keys == {<<1, 10>>, <<1, 11>>}

has_purchased(purch, key) == key \in DOMAIN purch

mark_purchased(purch, key, order_id, timestamp) ==
    [k \in DOMAIN purch \cup {key} |->
        IF k = key THEN [order_id |-> order_id, timestamp |-> isoformat(timestamp)]
        ELSE purch[k]]

get_purchase_info(purch, key) == purch[key]

clear_purchase(purch, key) == [k \in DOMAIN purch \ {key} |-> purch[k]]

(***************************************************************************)
(* WooCommercePurchaser.  Every response carries how the request ended:    *)
(* "ok", "transport" (a requests.RequestException from the call) or "http" *)
(* (raise_for_status raised).                                              *)
(***************************************************************************)
Ends == {"ok", "transport", "http"}

\* the exception a request that did not end "ok" raises: session.get and
\* session.post raise on a transport error, raise_for_status on an HTTP error
\* status
request_exception(end) ==
    IF end = "transport"
    THEN [raised |-> "ConnectionError", message |-> <<"Connection refused">>]
    ELSE [raised |-> "HTTPError", message |-> <<"500 Server Error">>]

\* the subclasses of requests.RequestException the model raises
RequestExceptions == {"ConnectionError", "HTTPError"}

\* the subclasses of Exception the model raises (the JSONDecodeError of
\* response.json() is a ValueError)
Exceptions == RequestExceptions \cup {"PurchaseError", "JSONDecodeError"}

\* the failure substrings of add_to_cart; LocalePhrase stands for the
\* locale's out-of-stock phrase, which has no letter case
CartPhrases == {"cannot add", "out of stock"}
LocalePhrase == "locale out of stock"

\* a response body as the occurrences of the phrases in it, each with the
\* letter case it is written in
CartBodies ==
    {{}} \cup {{<<p, c>>} : p \in CartPhrases, c \in {"lower", "mixed"}}
         \cup {{<<LocalePhrase, "caseless">>}}

\* response.text.lower()
lower(text) == {<<o[1], IF o[2] = "mixed" THEN "lower" ELSE o[2]>> : o \in text}

\* phrase in text, for a phrase written in lower case
contains(text, phrase) == \E o \in text : o[1] = phrase /\ o[2] # "mixed"

\* "interrupted": KeyboardInterrupt arrives while session.post waits
CartEnds == Ends \cup {"interrupted"}

NoCartResponse == [end |-> "none", body |-> {}]

\* a transport error or an interrupt leaves no response; an HTTP error status
\* comes with a body
CartResponses == {r \in [end : CartEnds, body : CartBodies] :
                    /\ r.end \in {"transport", "interrupted"} => r.body = {}
                    /\ r.end = "http" => r.body \in {{}, {<<"out of stock", "lower">>}}}

\* add_to_cart matching the phrases against the body as it came
add_to_cart_case_sensitive(resp) ==
    IF resp.end = "interrupted" THEN [value |-> None, raised |-> "KeyboardInterrupt"]
    ELSE IF resp.end # "ok" THEN [value |-> None, raised |-> "PurchaseError"]
    ELSE IF \/ contains(resp.body, "cannot add")
            \/ contains(resp.body, "out of stock")
            \/ contains(resp.body, LocalePhrase)
    THEN [value |-> "False", raised |-> None]
    ELSE [value |-> "True", raised |-> None]

\* KeyboardInterrupt is no RequestException and leaves add_to_cart as it is
add_to_cart(resp) ==
    IF resp.end = "interrupted" THEN [value |-> None, raised |-> "KeyboardInterrupt"]
    ELSE IF resp.end # "ok" THEN [value |-> None, raised |-> "PurchaseError"]
    ELSE IF \/ contains(lower(resp.body), "cannot add")
            \/ contains(lower(resp.body), "out of stock")
            \/ contains(resp.body, LocalePhrase)
    THEN [value |-> "False", raised |-> None]
    ELSE [value |-> "True", raised |-> None]

\* the checkout page: the nonce of wc_checkout_params, None without one
PageResponses == {r \in [end : Ends, nonce : {None, "a1f"}] :
                    r.end # "ok" => r.nonce = None}

_extract_update_order_review_nonce(page) == page.nonce

\* the update_order_review response: the nonce in its escaped-quote form and
\* in its plain form, None where the form does not occur
ReviewResponses == {r \in [end : Ends, escaped : {None, "e5c"}, plain : {None, "b7d"}] :
                      r.end # "ok" => (r.escaped = None /\ r.plain = None)}

_extract_checkout_nonce(resp) ==
    IF resp.escaped # None THEN resp.escaped
    ELSE IF resp.plain # None THEN resp.plain
    ELSE None

\* a delivery date on the wire, M-D-YYYY, as <<month, day, year>>
WireDates == {<<3, 5, 2024>>, <<3, 6, 2024>>, <<13, 45, 2024>>}
Todays == {<<2024, 3, 4>>, <<2024, 3, 5>>, <<2024, 3, 6>>}

IsLeap(y) == (y % 4 = 0 /\ y % 100 # 0) \/ y % 400 = 0

DaysInMonth(m, y) ==
    IF m = 2 THEN (IF IsLeap(y) THEN 29 ELSE 28)
    ELSE IF m \in {4, 6, 9, 11} THEN 30 ELSE 31

\* strptime taking any three numbers for a date
strptime_lenient(w) == <<w[3], w[1], w[2]>>

\* datetime.strptime(date_str, "%m-%d-%Y"): the date as <<year, month, day>>,
\* None when it raises ValueError
strptime(w) ==
    IF w[1] \in 1..12 /\ w[2] >= 1 /\ w[2] <= DaysInMonth(w[1], w[3])
    THEN <<w[3], w[1], w[2]>> ELSE <<>>

\* date_obj.strftime("%Y-%m-%d"): the year, the two digits of the month and
\* the two digits of the day
strftime(d) == <<d[1], d[2] \div 10, d[2] % 10, d[3] \div 10, d[3] % 10>>

\* the comparison letting today's date through
DateNotBefore(a, b) ==
    \/ a[1] > b[1]
    \/ a[1] = b[1] /\ a[2] > b[2]
    \/ a[1] = b[1] /\ a[2] = b[2] /\ a[3] >= b[3]

\* date_obj.date() > today
DateAfter(a, b) ==
    \/ a[1] > b[1]
    \/ a[1] = b[1] /\ a[2] > b[2]
    \/ a[1] = b[1] /\ a[2] = b[2] /\ a[3] > b[3]

\* the matches of the date pattern in the response, in response order
DateLists == {<<>>} \cup {<<a>> : a \in WireDates}
               \cup {<<a, b>> : a \in WireDates, b \in WireDates}

DateResponses == {r \in [end : Ends, dates : DateLists] :
                    r.end # "ok" => r.dates = <<>>}

get_available_delivery_dates(resp) ==
    IF resp.end # "ok" THEN [value |-> <<>>, raised |-> "PurchaseError"]
    ELSE IF resp.dates = <<>> THEN [value |-> <<>>, raised |-> "PurchaseError"]
    ELSE [value |-> resp.dates, raised |-> None]

\* the for loop of get_earliest_delivery_date from entry i on
RECURSIVE earliest_from(_, _, _)
earliest_from(dates, i, today) ==
    IF i > Len(dates) THEN [value |-> <<>>, raised |-> "PurchaseError"]
    ELSE LET date_obj == strptime(dates[i]) IN
         IF date_obj # <<>> /\ DateAfter(date_obj, today)
         THEN [value |-> strftime(date_obj), raised |-> None]
         ELSE earliest_from(dates, i + 1, today)

get_earliest_delivery_date(resp, today) ==
    LET dates == get_available_delivery_dates(resp) IN
    IF dates.raised # None THEN [value |-> <<>>, raised |-> "PurchaseError"]
    ELSE earliest_from(dates.value, 1, today)

\* the final response: valid: response.json() parses to an object; result:
\* its "result"; has_order_id, order_id: its "order_id"; messages: its
\* "messages", None without the key.  An HTTP error status may come with any
\* body; a transport error comes with none.
SubmitResponses == {r \in [end : Ends, valid : BOOLEAN,
                           result : {"success", "failure"},
                           has_order_id : BOOLEAN, order_id : {7, 8},
                           messages : {None, "sold out"}] :
                      /\ r.end = "transport" => ~r.valid
                      /\ ~r.valid => (r.result = "failure" /\ ~r.has_order_id)
                      /\ ~r.has_order_id => r.order_id = 7
                      /\ (r.result = "success" \/ ~r.valid) => r.messages = None
                      /\ r.result = "failure" => ~r.has_order_id}

\* str(order_id)
str(n) == IF n = 7 THEN "7" ELSE "8"

NoException == [raised |-> None, message |-> <<>>]

\* the result parsing of checkout taking every parsed response for a success
checkout_result_any_parsed(resp) ==
    IF resp.end # "ok"
    THEN [value |-> None] @@ request_exception(resp.end)
    ELSE IF ~resp.valid
    THEN [value |-> None, raised |-> "JSONDecodeError",
          message |-> <<"Expecting value">>]
    ELSE [value |-> IF resp.has_order_id THEN str(resp.order_id) ELSE "unknown"]
           @@ NoException

\* lines 205-216 of checkout: the order id, or the exception raised inside
\* the try block
checkout_result(resp) ==
    IF resp.end # "ok"
    THEN [value |-> None] @@ request_exception(resp.end)
    ELSE IF ~resp.valid
    THEN [value |-> None, raised |-> "JSONDecodeError",
          message |-> <<"Expecting value">>]
    ELSE IF resp.result = "success"
    THEN [value |-> IF resp.has_order_id THEN str(resp.order_id) ELSE "unknown"]
           @@ NoException
    ELSE [value |-> None, raised |-> "PurchaseError",
          message |-> <<"Checkout failed: ",
                        IF resp.messages # None THEN resp.messages
                        ELSE "Unknown error">>]

\* the except clauses of checkout catching RequestException only
checkout_except_requests_only(exc) ==
    IF exc.raised \in RequestExceptions
    THEN [raised |-> "PurchaseError",
          message |-> <<"Checkout request failed: ">> \o exc.message]
    ELSE exc

\* the except clauses of checkout: what leaves the call when exc was raised
\* inside the try block
checkout_except(exc) ==
    IF exc.raised \in RequestExceptions
    THEN [raised |-> "PurchaseError",
          message |-> <<"Checkout request failed: ">> \o exc.message]
    ELSE IF exc.raised \in Exceptions
    THEN [raised |-> "PurchaseError",
          message |-> <<"Checkout failed: ">> \o exc.message]
    ELSE exc

(***************************************************************************)
(* scripts/purchase_product.py: main.                                      *)
(***************************************************************************)
Args == [clear_state : BOOLEAN, dry_run : BOOLEAN]

\* every except clause of main ending in sys.exit(1)
exit_code_always_one(raised) == 1

\* the exit status the except clauses of main give an exception
exit_code_of(raised) == IF raised = "KeyboardInterrupt" THEN 130 ELSE 1

\* the finally clause: 'e' in locals().  Every except clause ends in
\* sys.exit, and leaving an except clause, also by an exception, unbinds the
\* name it bound with "as e"; the try body binds no e.
e_in_locals(raised) == FALSE

\* the guard of main never blocking
never_blocked(purch, key) == FALSE

\* the guard of main: whether the ledger blocks the purchase
already_purchased(purch, key) == has_purchased(purch, key)

NoPurEvent == [key |-> <<0, 0>>, clear_state |-> FALSE, dry_run |-> FALSE,
               guarded |-> FALSE, add_to_cart |-> FALSE, checkout |-> FALSE,
               exited |-> FALSE, exit_code |-> 0, raised |-> None,
               send_error |-> FALSE, send_success |-> FALSE,
               reported |-> None, marked |-> FALSE, cleared |-> FALSE,
               removed |-> FALSE, after_clear |-> FALSE,
               cart |-> None, cart_resp |-> NoCartResponse,
               message |-> <<>>]

\* main ends because `raised` was raised in the try body
exit_raised(ev, raised) ==
    [ev EXCEPT !.exited = TRUE, !.exit_code = exit_code_of(raised),
               !.raised = raised, !.send_error = e_in_locals(raised)]

\* main ends by return or by sys.exit(code) in the try body
exit_plain(ev, code) == [ev EXCEPT !.exited = TRUE, !.exit_code = code]

\* main after add_to_cart recording the purchase at once
after_add_to_cart_marks(purch, ev, success, dry_run) ==
    IF success.raised # None
    THEN [purchases |-> purch, ev |-> exit_raised(ev, success.raised)]
    ELSE IF success.value = "False"
    THEN [purchases |-> purch, ev |-> exit_plain(ev, 1)]
    ELSE IF dry_run
    THEN [purchases |-> mark_purchased(purch, ev.key, "unknown", 0),
          ev |-> exit_plain(ev, 0)]
    ELSE [purchases |-> mark_purchased(purch, ev.key, "unknown", 0),
          ev |-> [ev EXCEPT !.checkout = TRUE]]

\* main after add_to_cart without the test of args.dry_run
after_add_to_cart_ignores_dry_run(purch, ev, success, dry_run) ==
    IF success.raised # None
    THEN [purchases |-> purch, ev |-> exit_raised(ev, success.raised)]
    ELSE IF success.value = "False"
    THEN [purchases |-> purch, ev |-> exit_plain(ev, 1)]
    ELSE [purchases |-> purch, ev |-> [ev EXCEPT !.checkout = TRUE]]

\* main from the return of add_to_cart to the call of checkout
main_after_add_to_cart(purch, ev, success, dry_run) ==
    IF success.raised # None
    THEN [purchases |-> purch, ev |-> exit_raised(ev, success.raised)]
    ELSE IF success.value = "False"
    THEN [purchases |-> purch, ev |-> exit_plain(ev, 1)]
    ELSE IF dry_run
    THEN [purchases |-> purch, ev |-> exit_plain(ev, 0)]
    ELSE [purchases |-> purch, ev |-> [ev EXCEPT !.checkout = TRUE]]

\* main whose --clear-state branch returns leaving the record
main_to_checkout_clear_keeps(purch, args, cfg, store, key, cart_resp) ==
    LET ev == [NoPurEvent EXCEPT !.key = key, !.clear_state = args.clear_state,
                                 !.dry_run = args.dry_run]
    IN  IF cfg # "ok" THEN [purchases |-> purch, ev |-> exit_raised(ev, cfg)]
        ELSE IF store # "ok" THEN [purchases |-> purch, ev |-> exit_raised(ev, store)]
        ELSE IF args.clear_state
        THEN [purchases |-> purch,
              ev |-> exit_plain([ev EXCEPT !.cleared = TRUE,
                       !.removed = has_purchased(purch, key)], 0)]
        ELSE IF already_purchased(purch, key)
        THEN [purchases |-> purch,
              ev |-> exit_plain([ev EXCEPT !.guarded = TRUE,
                       !.reported = get_purchase_info(purch, key).order_id], 0)]
        ELSE main_after_add_to_cart(purch,
                 [ev EXCEPT !.add_to_cart = TRUE, !.cart_resp = cart_resp,
                            !.cart = add_to_cart(cart_resp).value],
                 add_to_cart(cart_resp), args.dry_run)

\* main from its start to the return of add_to_cart: cfg is what
\* ConfigLoader.load does, store what constructing JsonStateStore does
main_to_checkout(purch, args, cfg, store, key, cart_resp) ==
    LET ev == [NoPurEvent EXCEPT !.key = key, !.clear_state = args.clear_state,
                                 !.dry_run = args.dry_run]
    IN  IF cfg # "ok" THEN [purchases |-> purch, ev |-> exit_raised(ev, cfg)]
        ELSE IF store # "ok" THEN [purchases |-> purch, ev |-> exit_raised(ev, store)]
        ELSE IF args.clear_state
        THEN [purchases |-> clear_purchase(purch, key),
              ev |-> exit_plain([ev EXCEPT !.cleared = TRUE,
                       !.removed = has_purchased(purch, key)], 0)]
        ELSE IF already_purchased(purch, key)
        THEN [purchases |-> purch,
              ev |-> exit_plain([ev EXCEPT !.guarded = TRUE,
                       !.reported = get_purchase_info(purch, key).order_id], 0)]
        ELSE main_after_add_to_cart(purch,
                 [ev EXCEPT !.add_to_cart = TRUE, !.cart_resp = cart_resp,
                            !.cart = add_to_cart(cart_resp).value],
                 add_to_cart(cart_resp), args.dry_run)

\* main after checkout returned order_id, without mark_purchased
after_checkout_unrecorded(purch, ev, order_id, timestamp) ==
    [purchases |-> purch,
     ev |-> exit_plain([ev EXCEPT !.send_success = TRUE, !.reported = order_id], 0)]

\* main after checkout returned order_id: mark_purchased, send_success, return
main_after_checkout(purch, ev, order_id, timestamp) ==
    [purchases |-> mark_purchased(purch, ev.key, order_id, timestamp),
     ev |-> exit_plain([ev EXCEPT !.marked = TRUE, !.send_success = TRUE,
                                  !.reported = order_id], 0)]

\* step 1 going on whatever the page holds
page_fetched(page) == page.end = "ok"

\* step 1 of checkout succeeded: the page came and holds the review nonce
session_established(page) ==
    page.end = "ok" /\ _extract_update_order_review_nonce(page) # None

\* step 2 going on whatever the response holds
review_answered(resp) == resp.end = "ok"

\* step 2 of checkout succeeded: the response came and holds the checkout nonce
review_submitted(resp) ==
    resp.end = "ok" /\ _extract_checkout_nonce(resp) # None

Call(name, ok) == [call |-> name, ok |-> ok]

GET_CHECKOUT == "GET /checkout/"
POST_DELIVERY == "POST orddd_update_delivery_session"
POST_REVIEW == "POST update_order_review"
POST_CHECKOUT == "POST checkout"

\* an invocation of the purchase command, up to the first call of checkout
PurchaseStart ==
    /\ pur_pc \in {"idle", "exited"}
    /\ invocations < MaxInvocations
    /\ invocations' = invocations + 1
    /\ \E key \in Keys :
       \E out \in {main_to_checkout(purchases, args, cfg, store, key, cart_resp) :
                     args \in Args, cfg \in {"ok", "ConfigurationError"},
                     store \in {"ok", "OSError"}, cart_resp \in CartResponses} :
         /\ purchases' = out.purchases
         /\ pur_event' = [out.ev EXCEPT !.after_clear =
                            /\ pur_event.cleared /\ pur_event.removed
                            /\ pur_event.key = key]
         /\ cur_key' = key
         /\ pur_pc' = IF out.ev.exited THEN "exited" ELSE "INIT"
         /\ orders' = IF out.ev.cleared THEN [orders EXCEPT ![key] = 0] ELSE orders
    /\ net_log' = <<>>
    /\ net_resp' = <<>>
    /\ update_nonce' = None
    /\ checkout_nonce' = None

\* what step 1 raises when it does not succeed (lines 146 and 150-151)
page_failure(page) ==
    IF page.end # "ok" THEN request_exception(page.end)
    ELSE [raised |-> "PurchaseError",
          message |-> <<"Failed to extract update_order_review_nonce from checkout page">>]

\* what the delivery-date lookup raises when it does not succeed
delivery_failure(resp) ==
    IF resp.end # "ok"
    THEN [raised |-> "PurchaseError",
          message |-> <<"Failed to fetch delivery dates: ">>
                        \o request_exception(resp.end).message]
    ELSE IF resp.dates = <<>>
    THEN [raised |-> "PurchaseError",
          message |-> <<"Failed to parse delivery dates: ",
                        "No delivery dates found in API response">>]
    ELSE [raised |-> "PurchaseError",
          message |-> <<"No delivery dates available after today">>]

\* what step 2 raises when it does not succeed (lines 180 and 184-185)
review_failure(resp) ==
    IF resp.end # "ok" THEN request_exception(resp.end)
    ELSE [raised |-> "PurchaseError",
          message |-> <<"Failed to extract checkout nonce from update_order_review response">>]

\* a failed step leaving checkout where it is, to be tried again
CheckoutFailsAndRetries(exc) ==
    UNCHANGED <<pur_event, pur_pc, purchases, orders>>

\* exc was raised inside the try block of checkout: its except clauses, then
\* main's except clause and finally, then exit
CheckoutFails(exc) ==
    LET out == checkout_except(exc)
    IN /\ pur_event' = [exit_raised(pur_event, out.raised)
                          EXCEPT !.message = out.message]
       /\ pur_pc' = "exited"
       /\ UNCHANGED <<purchases, orders>>

\* step 1 of checkout: GET the checkout page, extract the review nonce
CheckoutGetPage ==
    /\ pur_pc = "INIT"
    /\ \E page \in PageResponses :
         /\ IF session_established(page)
            THEN /\ net_log' = Append(net_log, Call(GET_CHECKOUT, TRUE))
                 /\ update_nonce' = _extract_update_order_review_nonce(page)
                 /\ pur_pc' = "SESSION_ESTABLISHED"
                 /\ UNCHANGED <<purchases, pur_event, orders>>
            ELSE /\ net_log' = Append(net_log, Call(GET_CHECKOUT, FALSE))
                 /\ CheckoutFails(page_failure(page))
                 /\ UNCHANGED update_nonce
         /\ net_resp' = Append(net_resp, page)
    /\ UNCHANGED <<cur_key, invocations, checkout_nonce>>

\* _build_checkout_payload taking the delivery date from shipping_info
\* instead of looking it up
CheckoutDeliveryDateConfigured ==
    /\ pur_pc = "SESSION_ESTABLISHED"
    /\ pur_pc' = "PAYLOAD_BUILT"
    /\ UNCHANGED <<purchases, pur_event, orders, net_log, net_resp, cur_key,
                   invocations, update_nonce, checkout_nonce>>

\* _build_checkout_payload: the delivery-date call made for e_deliverydate_0
CheckoutDeliveryDate ==
    /\ pur_pc = "SESSION_ESTABLISHED"
    /\ \E resp \in DateResponses, today \in Todays :
         /\ IF get_earliest_delivery_date(resp, today).raised = None
            THEN /\ net_log' = Append(net_log, Call(POST_DELIVERY, TRUE))
                 /\ pur_pc' = "PAYLOAD_BUILT"
                 /\ UNCHANGED <<purchases, pur_event, orders>>
            ELSE /\ net_log' = Append(net_log, Call(POST_DELIVERY, FALSE))
                 /\ CheckoutFails(delivery_failure(resp))
         /\ net_resp' = Append(net_resp, resp)
    /\ UNCHANGED <<cur_key, invocations, update_nonce, checkout_nonce>>

\* step 2 of checkout: POST update_order_review, extract the checkout nonce
CheckoutUpdateReview ==
    /\ pur_pc = "PAYLOAD_BUILT"
    /\ \E resp \in ReviewResponses :
         /\ IF review_submitted(resp)
            THEN /\ net_log' = Append(net_log, Call(POST_REVIEW, TRUE))
                 /\ checkout_nonce' = _extract_checkout_nonce(resp)
                 /\ pur_pc' = "REVIEW_SUBMITTED"
                 /\ UNCHANGED <<purchases, pur_event, orders>>
            ELSE /\ net_log' = Append(net_log, Call(POST_REVIEW, FALSE))
                 /\ CheckoutFails(review_failure(resp))
                 /\ UNCHANGED checkout_nonce
         /\ net_resp' = Append(net_resp, resp)
    /\ UNCHANGED <<cur_key, invocations, update_nonce>>

\* step 3 of checkout: POST checkout, parse the result; on success main
\* records the purchase and reports it
CheckoutSubmit ==
    /\ pur_pc = "REVIEW_SUBMITTED"
    /\ \E resp \in SubmitResponses :
         LET order == checkout_result(resp) IN
         /\ IF order.raised = None
            THEN LET out == main_after_checkout(purchases, pur_event, order.value,
                                                invocations)
                 IN /\ net_log' = Append(net_log, Call(POST_CHECKOUT, TRUE))
                    /\ purchases' = out.purchases
                    /\ pur_event' = out.ev
                    /\ pur_pc' = "exited"
                    /\ orders' = [orders EXCEPT ![cur_key] = @ + 1]
            ELSE /\ net_log' = Append(net_log, Call(POST_CHECKOUT, FALSE))
                 /\ CheckoutFails([raised |-> order.raised,
                                   message |-> order.message])
         /\ net_resp' = Append(net_resp, resp)
    /\ UNCHANGED <<cur_key, invocations, update_nonce, checkout_nonce>>

(***************************************************************************)
(* SlackNotifier.send_error and send_success, and single calls of them and *)
(* of get_earliest_delivery_date.  `end` is how requests.post to the       *)
(* webhook ended.                                                          *)
(***************************************************************************)
MaxCalls == 2

\* send_error letting a failure of the webhook call out as NotificationError,
\* as notify does
send_error_raising(error, context, end) ==
    IF end = "ok" THEN [value |-> "True", raised |-> None]
    ELSE [value |-> None, raised |-> "NotificationError"]

\* requests.post raising and raise_for_status raising both end in the
\* except Exception clause
send_error(error, context, end) ==
    IF end = "ok" THEN [value |-> "True", raised |-> None]
    ELSE [value |-> "False", raised |-> None]

send_success(order_id, product_name, end) ==
    IF end = "ok" THEN [value |-> "True", raised |-> None]
    ELSE [value |-> "False", raised |-> None]

NoDateResponse == [end |-> "none", dates |-> <<>>]
NoToday == <<0, 0, 0>>

NoCall == [op |-> None, resp |-> NoDateResponse, today |-> NoToday,
           end |-> None, arg |-> None, extra |-> None,
           out |-> [value |-> <<>>, raised |-> None]]

\* a call of get_earliest_delivery_date
CallEarliestDeliveryDate ==
    /\ calls_made < MaxCalls
    /\ calls_made' = calls_made + 1
    /\ \E resp \in DateResponses, today \in Todays :
         last_call' = [NoCall EXCEPT !.op = "get_earliest_delivery_date",
                         !.resp = resp, !.today = today,
                         !.out = get_earliest_delivery_date(resp, today)]

\* a call of send_error, with or without context
CallSendError ==
    /\ calls_made < MaxCalls
    /\ calls_made' = calls_made + 1
    /\ \E error \in Exceptions, context \in {None, "checkout"}, end \in Ends :
         last_call' = [NoCall EXCEPT !.op = "send_error", !.end = end,
                         !.arg = error, !.extra = context,
                         !.out = send_error(error, context, end)]

\* a call of send_success, with or without product_name
CallSendSuccess ==
    /\ calls_made < MaxCalls
    /\ calls_made' = calls_made + 1
    /\ \E order_id \in {"7", "8"}, product_name \in {None, "/product/bento"},
          end \in Ends :
         last_call' = [NoCall EXCEPT !.op = "send_success", !.end = end,
                         !.arg = order_id, !.extra = product_name,
                         !.out = send_success(order_id, product_name, end)]

(***************************************************************************)
(* Initial state and the specifications.                                   *)
(***************************************************************************)
MonInit ==
    /\ state_file = <<>>
    /\ now = 0
    /\ mon_pc = "idle"
    /\ idx = 1
    /\ results = ZeroResults
    /\ event = NoEvent
    /\ phase = [u \in URLs |-> "fresh"]
    /\ first_ts = [u \in URLs |-> 0]
    /\ notify_failed = {}

PurIdle ==
    /\ purchases = <<>>
    /\ pur_pc = "idle"
    /\ cur_key = <<0, 0>>
    /\ invocations = 0
    /\ net_log = <<>>
    /\ net_resp = <<>>
    /\ update_nonce = None
    /\ checkout_nonce = None
    /\ pur_event = NoPurEvent
    /\ orders = [k \in Keys |-> 0]

ChkIdle ==
    /\ chk_pc = "idle"
    /\ cur_attempt = 0
    /\ last_error = NoError
    /\ chk_html = NoHtml
    /\ chk_log = <<>>
    /\ chk_out = NoOutcome

\* the state file after the first construction of a store on a new path
LedInit ==
    /\ led_file = store_open(DamagedFile("missing")).file
    /\ led_hist = <<>>

CalInit ==
    /\ last_call = NoCall
    /\ calls_made = 0

Init == MonInit /\ PurIdle /\ ChkIdle /\ LedInit /\ CalInit

Next ==
    \/ RunStart /\ UNCHANGED <<pur_vars, chk_vars, led_vars, cal_vars>>
    \/ CheckProduct /\ UNCHANGED <<pur_vars, chk_vars, led_vars, cal_vars>>
    \/ ClearState /\ UNCHANGED <<pur_vars, chk_vars, led_vars, cal_vars>>

Spec == Init /\ [][Next]_vars

\* runs without end and without the operator: the scheduler keeps starting
\* runs and a run that has begun goes through its products
NextLive ==
    \/ RunStartLive /\ UNCHANGED <<pur_vars, chk_vars, led_vars, cal_vars>>
    \/ CheckProduct /\ UNCHANGED <<pur_vars, chk_vars, led_vars, cal_vars>>

SpecLive ==
    /\ Init /\ [][NextLive]_vars
    /\ WF_vars(RunStartLive /\ UNCHANGED <<pur_vars, chk_vars, led_vars, cal_vars>>)
    /\ WF_vars(CheckProduct /\ UNCHANGED <<pur_vars, chk_vars, led_vars, cal_vars>>)

NextPurchase ==
    \/ PurchaseStart /\ UNCHANGED <<mon_vars, chk_vars, led_vars, cal_vars>>
    \/ CheckoutGetPage /\ UNCHANGED <<mon_vars, chk_vars, led_vars, cal_vars>>
    \/ CheckoutDeliveryDate /\ UNCHANGED <<mon_vars, chk_vars, led_vars, cal_vars>>
    \/ CheckoutUpdateReview /\ UNCHANGED <<mon_vars, chk_vars, led_vars, cal_vars>>
    \/ CheckoutSubmit /\ UNCHANGED <<mon_vars, chk_vars, led_vars, cal_vars>>

SpecPurchase == Init /\ [][NextPurchase]_vars

NextChecker ==
    \/ IsAvailableStart /\ UNCHANGED <<mon_vars, pur_vars, led_vars, cal_vars>>
    \/ FetchAttempt /\ UNCHANGED <<mon_vars, pur_vars, led_vars, cal_vars>>
    \/ CheckClass /\ UNCHANGED <<mon_vars, pur_vars, led_vars, cal_vars>>
    \/ AttemptAddToCart /\ UNCHANGED <<mon_vars, pur_vars, led_vars, cal_vars>>

SpecChecker == Init /\ [][NextChecker]_vars

NextLedger ==
    \/ LedgerOpen /\ UNCHANGED <<mon_vars, pur_vars, chk_vars, cal_vars>>
    \/ LedgerWasNotified /\ UNCHANGED <<mon_vars, pur_vars, chk_vars, cal_vars>>
    \/ LedgerMarkNotified /\ UNCHANGED <<mon_vars, pur_vars, chk_vars, cal_vars>>
    \/ LedgerClearNotification /\ UNCHANGED <<mon_vars, pur_vars, chk_vars, cal_vars>>
    \/ LedgerCorrupt /\ UNCHANGED <<mon_vars, pur_vars, chk_vars, cal_vars>>

SpecLedger == Init /\ [][NextLedger]_vars

NextCalls ==
    \/ CallEarliestDeliveryDate /\ UNCHANGED <<mon_vars, pur_vars, chk_vars, led_vars>>
    \/ CallSendError /\ UNCHANGED <<mon_vars, pur_vars, chk_vars, led_vars>>
    \/ CallSendSuccess /\ UNCHANGED <<mon_vars, pur_vars, chk_vars, led_vars>>

SpecCalls == Init /\ [][NextCalls]_vars

(***************************************************************************)
(* Properties of the monitoring runs.                                      *)
(***************************************************************************)
\* the step is one iteration of the loop of check_and_notify
CheckStep == mon_pc = "running" /\ event'.op = "check"
             /\ (idx' # idx \/ mon_pc' # mon_pc)

\* C1: once notify has succeeded for a url, no check_and_notify step calls
\* notify for that url again until the product has been observed unavailable
\* (or the operator has cleared it).
C1_AtMostOncePerStreak ==
    [][(CheckStep /\ event'.notify # "none") => ~InStreak(phase[event'.url])]_vars

\* a notified product is observed available in a later run and is skipped
C1_Witness ==
    /\ event.op = "check" /\ event.avail = "True" /\ event.notify = "none"
    /\ InStreak(phase[event.url])
    /\ first_ts[event.url] < now
    /\ results.already_notified >= 1

\* C2: observing a notified product unavailable removes its record, and the
\* next observation of it as available calls notify again; when that notify
\* succeeds the url is recorded again with the new timestamp.
C2_RearmOnRestock ==
    /\ [][(CheckStep /\ event'.avail = "False")
            => event'.url \notin DOMAIN state_file']_vars
    /\ [][(CheckStep /\ event'.avail = "True" /\ phase[event'.url] = "cleared")
            => /\ event'.notify # "none"
               /\ event'.notify = "ok" =>
                    /\ event'.url \in DOMAIN state_file'
                    /\ state_file'[event'.url] = isoformat(now)
                    /\ results'.notified = results.notified + 1]_vars

\* notified, observed unavailable, and notified again on the restock
C2_Witness ==
    /\ event.op = "check" /\ event.notify = "ok"
    /\ phase[event.url] = "renotified"
    /\ event.url \in DOMAIN state_file
    /\ state_file[event.url] = isoformat(now)

\* C3: the ledger gains or changes an entry in a step only if notify returned
\* without error in that step; a url whose notify raised NotificationError
\* has no entry for the rest of the run, the failure adds one to errors, and
\* a product observed available without an entry always has notify attempted.
C3_NotifyThenMark ==
    /\ [][(mon_pc = "running" /\ event'.notify # "ok")
            => \A u \in DOMAIN state_file' :
                 u \in DOMAIN state_file /\ state_file'[u] = state_file[u]]_vars
    /\ [](\A u \in notify_failed : u \notin DOMAIN state_file)
    /\ [][(CheckStep /\ event'.notify = "error")
            => results'.errors = results.errors + 1]_vars
    /\ [][(CheckStep /\ event'.avail = "True"
             /\ event'.url \notin DOMAIN state_file)
            => event'.notify # "none"]_vars

\* notify failed in one run and a later run notified and marked the url
C3_Witness ==
    /\ event.op = "check" /\ event.notify = "ok"
    /\ phase[event.url] = "recovered"
    /\ event.url \in DOMAIN state_file

\* C4: no failure while checking or notifying a product ends the run: every
\* run that ends has checked every product, and a failed check is counted in
\* errors.
C4_BatchIsolation ==
    /\ mon_pc # "aborted"
    /\ mon_pc = "done" => results.checked = NumProducts
    /\ (event.op = "check" /\ event.avail \notin {"True", "False"})
         => results.errors >= 1

\* C5: an entry appears only in a step whose notify succeeded, disappears
\* only when its product is observed unavailable or the operator clears it,
\* and never changes value; observing a notified product available writes
\* nothing, and the stored value is the timestamp of the first notification
\* of the streak.
C5_RecordLifecycle ==
    /\ [][\A u \in URLs :
            /\ (u \notin DOMAIN state_file /\ u \in DOMAIN state_file')
                 => (CheckStep /\ event'.url = u /\ event'.notify = "ok")
            /\ (u \in DOMAIN state_file /\ u \notin DOMAIN state_file')
                 => \/ CheckStep /\ event'.url = u /\ event'.avail = "False"
                    \/ event'.op = "operator_clear" /\ event'.url = u
            /\ (u \in DOMAIN state_file /\ u \in DOMAIN state_file')
                 => state_file'[u] = state_file[u]]_vars
    /\ [][(CheckStep /\ event'.avail = "True"
             /\ event'.url \in DOMAIN state_file)
            => (event'.write = "none" /\ state_file' = state_file)]_vars
    /\ [](\A u \in DOMAIN state_file : state_file[u] = isoformat(first_ts[u]))

\* two runs after its notification the product is still observed available
\* and its record is untouched
C5_Witness ==
    /\ event.op = "check" /\ event.avail = "True" /\ event.write = "none"
    /\ event.url \in DOMAIN state_file
    /\ state_file[event.url] = isoformat(first_ts[event.url])
    /\ first_ts[event.url] + 2 <= now

\* C37: when is_available raises CheckerError for a product, the step
\* leaves the ledger as it was (no record created, none cleared), calls no
\* notify for it, and adds one to errors.
C37_FailedCheckKeepsStreak ==
    [][(CheckStep /\ event'.avail = "CheckerError")
         => /\ state_file' = state_file
            /\ event'.write = "none"
            /\ event'.notify = "none"
            /\ phase' = phase
            /\ results'.errors = results.errors + 1
            /\ results'.notified = results.notified
            /\ mon_pc' # "aborted"]_vars

\* the check of a product in its streak raised CheckerError and its record
\* is still there
C37_Witness ==
    /\ event.op = "check" /\ event.avail = "CheckerError"
    /\ event.url \in DOMAIN state_file
    /\ InStreak(phase[event.url])
    /\ first_ts[event.url] < now
    /\ results.errors >= 1

\* C38: when the add-to-cart probe fails in transport for a product that has
\* a record, the product counts as unavailable and the step clears the
\* record; the next observation of the product as available then calls
\* notify again.
C38_ProbeFailureEndsStreak ==
    /\ [][(CheckStep /\ event'.probe_failed)
            => /\ event'.avail = "False"
               /\ event'.url \notin DOMAIN state_file'
               /\ event'.url \in DOMAIN state_file
                    => (event'.write = "clear" /\ phase'[event'.url] = "cleared")]_vars
    /\ [][(CheckStep /\ event'.avail = "True"
             /\ event'.url \notin DOMAIN state_file)
            => event'.notify \in {"ok", "error"}]_vars

\* the probe of a notified product failed in transport and the record was
\* cleared
C38_Witness ==
    /\ event.op = "check" /\ event.probe_failed /\ event.avail = "False"
    /\ event.write = "clear"
    /\ phase[event.url] = "cleared"
    /\ event.url \notin DOMAIN state_file

\* the last step checked product u
CheckOf(u) == event.op = "check" /\ event.url = u

\* every observation of u finds it available
AlwaysAvailable(u) == [](CheckOf(u) => event.avail = "True")

\* u keeps being checked: the runs keep being executed and reach u
KeepsBeingChecked(u) == []<>CheckOf(u)

\* notify for u, if it keeps being called, succeeds at some call
NotifyEventuallySucceeds(u) ==
    []<>(CheckOf(u) /\ event.notify \in {"ok", "error"})
      => <>(CheckOf(u) /\ event.notify = "ok")

\* C39: a product that every run observes available, in runs that keep
\* being executed, with a notify that eventually succeeds, eventually has a
\* record and keeps it; from then on each check of it calls no notify and
\* adds one to already_notified.
C39_EventualNotification ==
    /\ \A u \in URLs :
         (AlwaysAvailable(u) /\ KeepsBeingChecked(u) /\ NotifyEventuallySucceeds(u))
           => <>[](/\ u \in DOMAIN state_file
                   /\ CheckOf(u) => (event.notify = "none" /\ event.write = "none"))
    /\ [][(CheckStep /\ event'.avail = "True" /\ event'.url \in DOMAIN state_file)
            => /\ results'.already_notified = results.already_notified + 1
               /\ results'.notified = results.notified
               /\ event'.notify = "none"
               /\ state_file' = state_file]_vars

\* a product whose notify failed in an earlier run was notified and is now
\* counted as already notified
C39_Witness ==
    /\ event.op = "check" /\ event.avail = "True" /\ event.notify = "none"
    /\ event.url \in DOMAIN state_file
    /\ phase[event.url] = "recovered"
    /\ results.already_notified >= 1

\* C40: at the end of a completed run checked is the number of products,
\* notified + already_notified <= available <= checked, errors <= checked,
\* and available - notified - already_notified is the number of products
\* whose notify failed in the run.
C40_TallyConsistency ==
    mon_pc = "done"
      => /\ results.checked = NumProducts
         /\ results.notified + results.already_notified <= results.available
         /\ results.available <= results.checked
         /\ results.errors <= results.checked
         /\ results.available - results.notified - results.already_notified
              = Cardinality(notify_failed)

\* a completed run in which one notify failed and another product was
\* notified
C40_Witness ==
    /\ mon_pc = "done"
    /\ Cardinality(notify_failed) = 1
    /\ results.notified = 1
    /\ results.available = 2
    /\ results.errors = 1

(***************************************************************************)
(* Properties of the purchase command.                                     *)
(***************************************************************************)
\* the step begins an invocation of the purchase command
StartStep == invocations' = invocations + 1

\* the invocation got as far as the guard: the configuration loaded, the
\* store opened, and --clear-state was not given
ReachedGuard(ev) ==
    ~ev.clear_state /\ ev.raised \notin {"ConfigurationError", "OSError"}

\* C6: between two clears of a key at most one checkout for it succeeds, and
\* an invocation for a key with a successful purchase since its last clear
\* ends at once, calling neither add_to_cart nor checkout.
C6_AtMostOncePurchase ==
    /\ [](\A k \in Keys : orders[k] <= 1)
    /\ [][(StartStep /\ orders[pur_event'.key] >= 1)
            => /\ pur_pc' = "exited"
               /\ ~pur_event'.add_to_cart
               /\ ~pur_event'.checkout]_vars

\* a purchase succeeded and a later invocation for the key was blocked
C6_Witness ==
    /\ pur_event.exited /\ pur_event.guarded
    /\ orders[pur_event.key] = 1
    /\ invocations >= 2

\* C7: an invocation that reaches the guard while the ledger holds a record
\* for its key calls neither add_to_cart nor checkout (no network call at
\* all), reports the stored order id and exits with status 0.
C7_PurchaseGuard ==
    [][(StartStep /\ ReachedGuard(pur_event')
          /\ pur_event'.key \in DOMAIN purchases)
         => /\ ~pur_event'.add_to_cart
            /\ ~pur_event'.checkout
            /\ pur_event'.reported = purchases[pur_event'.key].order_id
            /\ pur_event'.exited /\ pur_event'.exit_code = 0
            /\ pur_pc' = "exited"
            /\ purchases' = purchases]_vars

\* the guard reported the order id "7" of the stored record
C7_Witness ==
    /\ pur_event.exited /\ pur_event.guarded /\ pur_event.exit_code = 0
    /\ ~pur_event.add_to_cart
    /\ pur_event.key \in DOMAIN purchases
    /\ purchases[pur_event.key].order_id = "7"
    /\ pur_event.reported = "7"

\* C8: the ledger gains or changes a purchase record only in the step in
\* which checkout returned an order id, and the record holds that id; a run
\* that ends after add_to_cart returned false, after PurchaseError, or as a
\* dry run leaves no new record.
C8_RecordOnlyOnSuccess ==
    /\ [][\A k \in DOMAIN purchases' :
            (k \notin DOMAIN purchases \/ purchases'[k] # purchases[k])
              => /\ pur_pc = "REVIEW_SUBMITTED"
                 /\ net_log' = Append(net_log, Call(POST_CHECKOUT, TRUE))
                 /\ k = cur_key
                 /\ pur_event'.marked /\ pur_event'.raised = None
                 /\ purchases'[k].order_id = pur_event'.reported]_vars
    /\ [](pur_event.marked
            => (pur_event.checkout /\ ~pur_event.dry_run
                  /\ pur_event.raised = None /\ pur_event.exit_code = 0))

\* checkout was called and raised PurchaseError at its last step; the key
\* has no record
C8_Witness ==
    /\ pur_event.exited /\ pur_event.checkout
    /\ pur_event.raised = "PurchaseError"
    /\ Len(net_log) = 4
    /\ ~pur_event.marked
    /\ cur_key \notin DOMAIN purchases

\* C29: an invocation with --dry-run ends in main itself: it calls
\* add_to_cart once it is past the guard, and calls no checkout, issues no
\* checkout request, gives no key a new or changed record and sends no
\* success notification; when add_to_cart raised nothing it exits with 0,
\* or with 1 after add_to_cart returned false.
C29_DryRunStopsAfterCartAdd ==
    /\ [](pur_event.dry_run
            => /\ pur_event.exited /\ pur_pc = "exited"
               /\ ~pur_event.checkout /\ net_log = <<>>
               /\ ~pur_event.marked
               /\ ~pur_event.send_success)
    /\ [][(StartStep /\ pur_event'.dry_run)
            => /\ \A k \in DOMAIN purchases' :
                    k \in DOMAIN purchases /\ purchases'[k] = purchases[k]
               /\ (ReachedGuard(pur_event') /\ ~pur_event'.guarded)
                    => pur_event'.add_to_cart
               /\ (pur_event'.add_to_cart /\ pur_event'.raised = None)
                    => pur_event'.exit_code \in {0, 1}]_vars

\* a dry run whose add_to_cart returned true ended with status 0, and its
\* key has no record
C29_Witness ==
    /\ pur_event.dry_run /\ ~pur_event.clear_state
    /\ pur_event.add_to_cart /\ pur_event.raised = None
    /\ pur_event.exited /\ pur_event.exit_code = 0
    /\ ~pur_event.checkout /\ ~pur_event.marked /\ ~pur_event.send_success
    /\ pur_event.key \notin DOMAIN purchases

\* C30: an invocation with --clear-state, once the configuration loaded and
\* the store opened, removes the record of its key, leaves the other
\* records, and exits with 0 having called neither add_to_cart nor checkout;
\* the next invocation for that key that reaches the guard is not blocked
\* and calls add_to_cart.
C30_ClearStateUnblocks ==
    /\ [][(StartStep /\ pur_event'.clear_state
             /\ pur_event'.raised \notin {"ConfigurationError", "OSError"})
            => /\ pur_event'.key \notin DOMAIN purchases'
               /\ \A k \in Keys \ {pur_event'.key} :
                    /\ k \in DOMAIN purchases' <=> k \in DOMAIN purchases
                    /\ k \in DOMAIN purchases => purchases'[k] = purchases[k]
               /\ pur_event'.exited /\ pur_event'.exit_code = 0
               /\ pur_pc' = "exited"
               /\ ~pur_event'.add_to_cart /\ ~pur_event'.checkout
               /\ net_log' = <<>>]_vars
    /\ [][(StartStep /\ pur_event.cleared /\ pur_event'.key = pur_event.key
             /\ ReachedGuard(pur_event'))
            => /\ ~pur_event'.guarded
               /\ pur_event'.add_to_cart]_vars

\* a purchase was recorded, --clear-state removed the record, and the
\* invocation after it went on to checkout
C30_Witness ==
    /\ pur_event.after_clear /\ ~pur_event.clear_state
    /\ ~pur_event.guarded /\ pur_event.add_to_cart /\ pur_event.checkout
    /\ invocations >= 3

\* the ways an invocation ends without error
OrderPlaced == pur_event.checkout /\ pur_event.marked /\ pur_event.reported # None
DryRunCompleted == pur_event.dry_run /\ pur_event.cart = "True" /\ ~pur_event.checkout
StateCleared == pur_event.cleared
AlreadyPurchased == pur_event.guarded

\* C31: an invocation that has ended has exit status 0 exactly when it
\* ended without error (order placed, dry run completed, state cleared, or
\* already purchased), 130 exactly when it was interrupted, and 1 exactly
\* when add_to_cart returned false or another exception (PurchaseError among
\* them) was raised.
C31_ExitStatus ==
    pur_event.exited
      => /\ pur_event.exit_code \in {0, 1, 130}
         /\ pur_event.exit_code = 0
              <=> /\ pur_event.raised = None
                  /\ (OrderPlaced \/ DryRunCompleted \/ StateCleared
                        \/ AlreadyPurchased)
         /\ pur_event.exit_code = 130 <=> pur_event.raised = "KeyboardInterrupt"
         /\ pur_event.exit_code = 1
              <=> \/ pur_event.raised = None /\ pur_event.cart = "False"
                  \/ pur_event.raised \notin {None, "KeyboardInterrupt"}

\* the invocation was interrupted while add_to_cart waited for its response
\* and ended with status 130
C31_Witness ==
    /\ pur_event.exited /\ pur_event.exit_code = 130
    /\ pur_event.raised = "KeyboardInterrupt"
    /\ pur_event.add_to_cart /\ pur_event.cart_resp.end = "interrupted"
    /\ ~pur_event.checkout

\* C34: add_to_cart returns false when the body of the response holds one of
\* the failure substrings ("cannot add" or "out of stock" in any letter
\* case, or the locale's phrase), returns true when it holds none, and raises
\* PurchaseError when the request fails in transport or ends with an HTTP
\* error status, whatever the body.
C34_AddToCartResult ==
    pur_event.add_to_cart
      => LET resp == pur_event.cart_resp IN
         /\ resp.end \in {"transport", "http"}
              => /\ pur_event.cart = None
                 /\ pur_event.raised = "PurchaseError"
                 /\ pur_event.exited /\ ~pur_event.checkout
         /\ (resp.end = "ok" /\ resp.body # {}) => pur_event.cart = "False"
         /\ (resp.end = "ok" /\ resp.body = {}) => pur_event.cart = "True"

\* the body held "out of stock" in capitals: add_to_cart returned false and
\* main exited with status 1
C34_Witness ==
    /\ pur_event.add_to_cart /\ pur_event.cart_resp.end = "ok"
    /\ pur_event.cart_resp.body = {<<"out of stock", "mixed">>}
    /\ pur_event.cart = "False" /\ pur_event.raised = None
    /\ pur_event.exited /\ pur_event.exit_code = 1

\* C9: whenever the purchase command ends because of an exception raised in
\* the purchase flow (once the notifier exists, so after the configuration
\* has loaded), send_error has been invoked with it before the exit.
C9_ErrorReported ==
    (pur_event.exited /\ pur_event.raised \notin {None, "ConfigurationError"})
      => pur_event.send_error

\* the calls of the three steps of checkout, in the order issued
Steps(log) == SelectSeq([i \in 1..Len(log) |-> log[i].call],
                        LAMBDA c : c # POST_DELIVERY)

IsPrefix(a, b) == Len(a) <= Len(b) /\ \A i \in 1..Len(a) : a[i] = b[i]

Issued(log, name) == \E i \in 1..Len(log) : log[i].call = name

\* C10: the steps of a checkout call are issued in the order GET checkout
\* page, POST update_order_review, POST checkout, each at most once; a step
\* is issued only after every earlier call succeeded and the nonce it needs
\* was extracted; and a call that has ended has either returned an order id
\* or raised PurchaseError, never both.
C10_SingleForwardPath ==
    /\ IsPrefix(Steps(net_log), <<GET_CHECKOUT, POST_REVIEW, POST_CHECKOUT>>)
    /\ \A i \in 1..Len(net_log) : i < Len(net_log) => net_log[i].ok
    /\ Issued(net_log, POST_REVIEW) => update_nonce # None
    /\ Issued(net_log, POST_CHECKOUT) => checkout_nonce # None
    /\ (pur_event.checkout /\ ~pur_event.exited)
         => \A i \in 1..Len(net_log) : net_log[i].ok
    /\ (pur_event.checkout /\ pur_event.exited)
         => LET last == net_log[Len(net_log)]
                success == /\ last = Call(POST_CHECKOUT, TRUE)
                           /\ pur_event.reported # None
                           /\ pur_event.raised = None
                failed == /\ ~last.ok
                          /\ pur_event.raised = "PurchaseError"
                          /\ pur_event.reported = None
            IN  Len(net_log) >= 1 /\ (success \/ failed) /\ ~(success /\ failed)

\* a checkout call went through all its steps and returned an order id
C10_Witness ==
    /\ pur_event.checkout /\ pur_event.exited
    /\ Steps(net_log) = <<GET_CHECKOUT, POST_REVIEW, POST_CHECKOUT>>
    /\ net_log[Len(net_log)].ok
    /\ update_nonce = "a1f" /\ checkout_nonce \in {"e5c", "b7d"}

\* the call at position i of the running checkout call is `name`
IsCall(i, name) == i \in 1..Len(net_log) /\ net_log[i].call = name

\* the checkout page came back without an update_order_review nonce
ReviewNonceMissing ==
    IsCall(1, GET_CHECKOUT) /\ net_resp[1].end = "ok" /\ net_resp[1].nonce = None

\* checkout ended by raising PurchaseError
RaisedPurchaseError ==
    /\ pur_event.checkout /\ pur_event.exited /\ pur_pc = "exited"
    /\ pur_event.raised = "PurchaseError"

\* C11: when the GET of the checkout page succeeds but the page holds no
\* update_order_review nonce, checkout raises PurchaseError and the GET stays
\* the only network call of that checkout call (no delivery-date call, no
\* update_order_review POST, no checkout POST).
C11_AbortOnMissingReviewNonce ==
    /\ [](ReviewNonceMissing
            => /\ RaisedPurchaseError
               /\ net_log = <<Call(GET_CHECKOUT, FALSE)>>
               /\ update_nonce = None)
    /\ [][ReviewNonceMissing => (net_log' = net_log \/ net_log' = <<>>)]_vars

\* the page came with status ok and no nonce, and checkout raised
C11_Witness ==
    /\ ReviewNonceMissing
    /\ RaisedPurchaseError
    /\ Len(net_log) = 1
    /\ pur_event.message =
         <<"Checkout failed: ",
           "Failed to extract update_order_review_nonce from checkout page">>

\* the update_order_review response came back without a checkout nonce, in
\* its escaped form or in its plain form
CheckoutNonceMissing ==
    \E i \in 1..Len(net_log) :
        /\ net_log[i].call = POST_REVIEW
        /\ net_resp[i].end = "ok"
        /\ net_resp[i].escaped = None /\ net_resp[i].plain = None

\* C12: when the update_order_review response holds no checkout nonce,
\* neither escaped nor plain, checkout raises PurchaseError and the POST to
\* the checkout endpoint is never issued.
C12_AbortOnMissingCheckoutNonce ==
    /\ [](CheckoutNonceMissing
            => /\ RaisedPurchaseError
               /\ ~Issued(net_log, POST_CHECKOUT)
               /\ net_log[Len(net_log)] = Call(POST_REVIEW, FALSE)
               /\ checkout_nonce = None)
    /\ [][CheckoutNonceMissing => (net_log' = net_log \/ net_log' = <<>>)]_vars

\* the review response came with status ok and no nonce, and checkout raised
C12_Witness ==
    /\ CheckoutNonceMissing
    /\ RaisedPurchaseError
    /\ Steps(net_log) = <<GET_CHECKOUT, POST_REVIEW>>
    /\ pur_event.message =
         <<"Checkout failed: ",
           "Failed to extract checkout nonce from update_order_review response">>

\* the calls of a checkout call, in the order issued
Calls(log) == [i \in 1..Len(log) |-> log[i].call]

\* checkout returned an order id
CheckoutReturned ==
    /\ pur_event.checkout /\ pur_event.exited
    /\ pur_event.raised = None

\* C13 as stated: a checkout call issues exactly three network calls when it
\* succeeds (GET checkout page, POST update_order_review, POST checkout) and
\* never more than three.
C13_ThreeCalls ==
    /\ Len(net_log) <= 3
    /\ CheckoutReturned
         => Calls(net_log) = <<GET_CHECKOUT, POST_REVIEW, POST_CHECKOUT>>

\* C13 amended: a checkout call issues exactly four network calls when it
\* succeeds (GET checkout page, POST orddd_update_delivery_session for the
\* delivery date, POST update_order_review, POST checkout) and never more
\* than four.
C13_FourCalls ==
    /\ Len(net_log) <= 4
    /\ CheckoutReturned
         => Calls(net_log) = <<GET_CHECKOUT, POST_DELIVERY, POST_REVIEW,
                               POST_CHECKOUT>>

\* a checkout call returned an order id after its four calls
C13_Witness ==
    /\ CheckoutReturned
    /\ Len(net_log) = 4
    /\ \A i \in 1..4 : net_log[i].ok /\ net_resp[i].end = "ok"
    /\ pur_event.reported \in {"7", "8", "unknown"}

\* C14: checkout returns an order id if and only if the response to the
\* final POST came with a success status and parses as JSON with result
\* "success"; the id is the text of its order_id; for any other result it
\* raises PurchaseError whose message holds the response's messages field.
C14_CheckoutOutcome ==
    /\ CheckoutReturned => IsCall(Len(net_log), POST_CHECKOUT)
    /\ \A i \in 1..Len(net_log) :
         net_log[i].call = POST_CHECKOUT =>
           LET r == net_resp[i]
               parsed == r.end = "ok" /\ r.valid
           IN /\ CheckoutReturned <=> (parsed /\ r.result = "success")
              /\ (parsed /\ r.result = "success")
                   => pur_event.reported =
                        IF r.has_order_id THEN str(r.order_id) ELSE "unknown"
              /\ ~(parsed /\ r.result = "success")
                   => (RaisedPurchaseError /\ pur_event.reported = None)
              /\ (parsed /\ r.result # "success")
                   => \E j \in 1..Len(pur_event.message) :
                        pur_event.message[j] =
                          IF r.messages # None THEN r.messages ELSE "Unknown error"

\* the final response parsed with result "failure" and messages "sold out",
\* and the PurchaseError carries "sold out"
C14_Witness ==
    /\ IsCall(4, POST_CHECKOUT)
    /\ net_resp[4].end = "ok" /\ net_resp[4].valid
    /\ net_resp[4].result = "failure" /\ net_resp[4].messages = "sold out"
    /\ RaisedPurchaseError
    /\ pur_event.message = <<"Checkout failed: ", "Checkout failed: ", "sold out">>

\* C15: every failure of checkout leaves it as PurchaseError: whichever call
\* failed (transport error, HTTP error status, missing nonce, delivery-date
\* lookup, unparsable final response, result other than success), the
\* invocation ends with PurchaseError and with no other exception.
C15_AlwaysPurchaseError ==
    /\ (pur_event.checkout /\ pur_event.exited)
         => pur_event.raised \in {None, "PurchaseError"}
    /\ \A i \in 1..Len(net_log) : ~net_log[i].ok => RaisedPurchaseError
    /\ \A i \in 1..Len(net_resp) : net_resp[i].end # "ok" => RaisedPurchaseError

\* the final response came with status ok and did not parse; checkout raised
\* PurchaseError
C15_Witness ==
    /\ IsCall(4, POST_CHECKOUT)
    /\ net_resp[4].end = "ok" /\ ~net_resp[4].valid
    /\ RaisedPurchaseError
    /\ pur_event.message = <<"Checkout failed: ", "Expecting value">>

\* C16: within one checkout call no endpoint is requested twice, a failed
\* call is the last call of the checkout call and ends it, and nothing is
\* requested after it.
C16_NoRetry ==
    /\ [](\A i, j \in 1..Len(net_log) :
            net_log[i].call = net_log[j].call => i = j)
    /\ [](\A i \in 1..Len(net_log) :
            ~net_log[i].ok => (i = Len(net_log) /\ pur_pc = "exited"))
    /\ [][(Len(net_log) >= 1 /\ ~net_log[Len(net_log)].ok)
            => (net_log' = net_log \/ net_log' = <<>>)]_vars

\* the update_order_review POST failed at transport level and ended the call
C16_Witness ==
    /\ Calls(net_log) = <<GET_CHECKOUT, POST_DELIVERY, POST_REVIEW>>
    /\ net_resp[3].end = "transport"
    /\ ~net_log[3].ok
    /\ pur_pc = "exited" /\ pur_event.raised = "PurchaseError"
    /\ pur_event.message = <<"Checkout request failed: ", "Connection refused">>

(***************************************************************************)
(* Properties of is_available.                                             *)
(***************************************************************************)
\* the positions of chk_log holding a request or step `op`
Did(op) == {i \in 1..Len(chk_log) : chk_log[i].op = op}

\* _fetch_html returned a page to the running is_available call
Fetched == \E i \in Did("GET") : chk_log[i].end = "ok"

\* the is_available call is past the class check
Classified == Fetched /\ chk_pc \in {"probe", "returned", "raised"}

\* the is_available call has ended after its page was fetched
Ended == Fetched /\ chk_pc \in {"returned", "raised"}

\* C17: when the class string of the fetched page's product container
\* contains outofstock, is_available returns false, having neither called
\* _extract_product_data nor issued the add-to-cart POST.
C17_ShortCircuitOutOfStock ==
    (Classified /\ chk_html.container /\ chk_html.outofstock)
      => /\ chk_pc = "returned"
         /\ chk_out.value = "False" /\ chk_out.raised = None
         /\ Did("extract") = {} /\ Did("POST") = {}

\* a page whose container class holds outofstock and instock, with an
\* add-to-cart control, was answered false after the GET alone
C17_Witness ==
    /\ chk_pc = "returned" /\ chk_out.value = "False"
    /\ chk_html.container /\ chk_html.outofstock /\ chk_html.instock
    /\ chk_html.add_to_cart # None
    /\ chk_log = <<Ev("GET", "ok", 0)>>

\* the GETs of chk_log up to position i
GetsUpTo(i) == {j \in Did("GET") : j <= i}

\* C18: _fetch_html issues at most max_retries GETs; the first GET that
\* succeeds is the last one and its body is returned; it sleeps retry_delay
\* after a failed attempt exactly when that attempt was not the last of the
\* max_retries; and it raises CheckerError exactly when max_retries
\* attempts have failed, its message holding the error of the last attempt.
C18_BoundedFetchRetry ==
    /\ Cardinality(Did("GET")) <= max_retries
    /\ \A i \in Did("GET") :
         chk_log[i].end = "ok" => \A j \in Did("GET") : j <= i
    /\ chk_pc = "fetched"
         => (chk_log[Len(chk_log)] = Ev("GET", "ok", 0) /\ chk_html \in Htmls)
    /\ \A i \in Did("sleep") :
         /\ i > 1 /\ chk_log[i - 1].op = "GET" /\ chk_log[i - 1].end # "ok"
         /\ Cardinality(GetsUpTo(i)) < max_retries
         /\ chk_log[i].secs = retry_delay
    /\ \A i \in Did("GET") :
         (chk_log[i].end # "ok" /\ Cardinality(GetsUpTo(i)) < max_retries)
           => (i < Len(chk_log) /\ chk_log[i + 1].op = "sleep")
    /\ chk_out.raised = "CheckerError"
         <=> /\ Cardinality(Did("GET")) = max_retries
             /\ \A i \in Did("GET") : chk_log[i].end # "ok"
    /\ chk_out.raised = "CheckerError"
         => /\ chk_pc = "raised"
            /\ chk_log[Len(chk_log)].op = "GET"
            /\ chk_out.error = [end |-> chk_log[Len(chk_log)].end,
                                 attempt |-> max_retries]

\* every attempt failed, the last one with an HTTP error status after two
\* transport errors; two sleeps, none after the last attempt
C18_Witness ==
    /\ chk_pc = "raised" /\ chk_out.raised = "CheckerError"
    /\ chk_out.error = [end |-> "http", attempt |-> max_retries]
    /\ Cardinality(Did("GET")) = max_retries
    /\ Cardinality(Did("sleep")) = max_retries - 1
    /\ chk_log[1].end = "transport"
    /\ chk_log[Len(chk_log)] = Ev("GET", "http", 0)

\* the verdict of the add-to-cart probe on the response it got
ProbeVerdict(probe) ==
    IF probe.transport = "error" \/ probe.body # {} THEN "False" ELSE "True"

\* C19: for every fetched page with no matching product container,
\* is_available goes on to the add-to-cart POST and returns the probe's
\* verdict.
C19_NoContainerFallsThrough ==
    (Ended /\ ~chk_html.container)
      => /\ Did("POST") # {}
         /\ chk_pc = "returned"
         /\ chk_out.value = ProbeVerdict(chk_out.probe)

\* the add-to-cart POST was answered with status 302 and a Location that
\* holds "cart"
RedirectedToCart ==
    /\ Ended /\ Did("POST") # {}
    /\ chk_out.probe.transport = "ok" /\ chk_out.probe.redirect_cart

\* C21 as stated: when the page carries the instock class and the
\* add-to-cart POST is answered 302 with a Location holding "cart",
\* is_available returns true.
C21_InstockRedirect ==
    (RedirectedToCart /\ chk_html.container /\ chk_html.instock)
      => (chk_pc = "returned" /\ chk_out.value = "True")

\* C21 amended: when the page carries the instock class and the add-to-cart
\* POST is answered 302 with a Location holding "cart" and a body holding
\* none of the error phrases, is_available returns true.
C21_InstockRedirectCleanBody ==
    (RedirectedToCart /\ chk_html.container /\ chk_html.instock
       /\ chk_out.probe.body = {})
      => (chk_pc = "returned" /\ chk_out.value = "True"
            /\ chk_out.raised = None)

\* an instock page, a 302 to the cart with a clean body, answered true
C21_Witness ==
    /\ RedirectedToCart /\ chk_out.probe.body = {}
    /\ chk_html.container /\ chk_html.instock /\ ~chk_html.outofstock
    /\ chk_out.signal = "True"
    /\ chk_pc = "returned" /\ chk_out.value = "True"

\* C22: when the add-to-cart POST fails at transport level, is_available
\* returns false and raises nothing.
C22_ProbeTransportFailure ==
    (Ended /\ Did("POST") # {} /\ chk_out.probe.transport = "error")
      => /\ chk_pc = "returned"
         /\ chk_out.value = "False"
         /\ chk_out.raised = None

\* the POST raised a transport error after the page came at the second GET
\* attempt, and is_available answered false
C22_Witness ==
    /\ chk_pc = "returned" /\ chk_out.value = "False" /\ chk_out.raised = None
    /\ chk_out.probe.transport = "error"
    /\ chk_log[Len(chk_log)] = Ev("POST", "error", 0)
    /\ Cardinality(Did("GET")) = 2

\* the stock-class signal the claim gives a page
SignalReference(html) ==
    IF html.container /\ html.outofstock THEN "False"
    ELSE IF html.container /\ html.instock THEN "True"
    ELSE None

\* C23: the signal is OutOfStock when the container's class string holds
\* outofstock (also with instock), otherwise InStock when it holds instock,
\* otherwise Unknown; Unknown without a product container.
C23_StockClassSignal ==
    Classified => chk_out.signal = SignalReference(chk_html)

\* a container without either token gave Unknown, and is_available went on
\* to the probe
C23_Witness ==
    /\ Classified
    /\ chk_html.container /\ ~chk_html.outofstock /\ ~chk_html.instock
    /\ chk_out.signal = None
    /\ Did("extract") # {}

\* the add-to-cart POST of the call got a response
ProbeAnswered == Ended /\ Did("POST") # {} /\ chk_out.probe.transport = "ok"

\* C36: a probe that got a response returns false exactly when the body
\* holds one of the four error phrases in any letter case; a 302 to the cart
\* whose body holds an error phrase is unavailable, and a response with
\* neither an error phrase nor a cart redirect is available.
C36_ProbeVerdictRule ==
    ProbeAnswered
      => /\ chk_pc = "returned" /\ chk_out.raised = None
         /\ chk_out.value \in {"True", "False"}
         /\ chk_out.value = "False" <=> chk_out.probe.body # {}
         /\ (chk_out.probe.redirect_cart /\ chk_out.probe.body # {})
              => chk_out.value = "False"
         /\ (~chk_out.probe.redirect_cart /\ chk_out.probe.body = {})
              => chk_out.value = "True"

\* a 302 to the cart whose body holds "out of stock" in capitals: false
C36_Witness ==
    /\ ProbeAnswered
    /\ chk_out.probe.redirect_cart
    /\ chk_out.probe.body = {<<"out of stock", "mixed">>}
    /\ chk_pc = "returned" /\ chk_out.value = "False"

\* C20: is_available returns False for a fetched page that holds the
\* out_of_stock_wrapper marker and has no product container and no
\* add-to-cart control.
C20_WrapperPageUnavailable ==
    (Ended /\ chk_html.wrapper /\ ~chk_html.container
       /\ chk_html.add_to_cart = None)
      => (chk_pc = "returned" /\ chk_out.value = "False")

(***************************************************************************)
(* Properties of the ledger on its file.                                   *)
(***************************************************************************)
\* the last ledger call
LastCall == led_hist[Len(led_hist)]

\* entry i of led_hist is a call of `op` that returned
Returned(i, op) ==
    i \in 1..Len(led_hist) /\ led_hist[i].op = op /\ led_hist[i].raised = None

\* the mapping a reader of the file gets
Persisted(file) == IF file.kind = "json" THEN file.state ELSE <<>>

\* the step is a ledger call
LedgerStep == Len(led_hist') = Len(led_hist) + 1

\* C24: after mark_notified(url, t) returns the file holds one entry for url,
\* with the timestamp of that call, also when url was marked before with
\* another timestamp; and a was_notified(url) made next answers true.
C24_MarkNotifiedTwice ==
    /\ []((Len(led_hist) >= 1 /\ Returned(Len(led_hist), "mark_notified"))
            => /\ led_file.kind = "json"
               /\ LastCall.url \in DOMAIN led_file.state
               /\ Cardinality({k \in DOMAIN led_file.state : k = LastCall.url}) = 1
               /\ led_file.state[LastCall.url] = isoformat(LastCall.ts))
    /\ [][(LedgerStep /\ Returned(Len(led_hist), "mark_notified")
             /\ led_hist'[Len(led_hist')].op = "was_notified"
             /\ led_hist'[Len(led_hist')].url = LastCall.url)
            => led_hist'[Len(led_hist')].value = "True"]_vars

\* url 1 marked with timestamp 2, then with timestamp 1, then read back: one
\* entry, holding timestamp 1
C24_Witness ==
    /\ Len(led_hist) = 3
    /\ Returned(1, "mark_notified") /\ led_hist[1].url = 1 /\ led_hist[1].ts = 2
    /\ Returned(2, "mark_notified") /\ led_hist[2].url = 1 /\ led_hist[2].ts = 1
    /\ Returned(3, "was_notified") /\ led_hist[3].url = 1
    /\ led_hist[3].value = "True"
    /\ DOMAIN led_file.state = {1}
    /\ led_file.state[1] = isoformat(1)

\* C25: after mark_notified(url, t), once a store has been opened anew on
\* the file, the file holds the ISO-8601 form of t for url and
\* was_notified(url) answers true.
C25_RoundTrip ==
    \A i \in 1..Len(led_hist) :
        (Returned(i, "mark_notified") /\ Returned(i + 1, "open"))
          => /\ i + 1 = Len(led_hist)
                  => /\ led_file.kind = "json"
                     /\ led_hist[i].url \in DOMAIN led_file.state
                     /\ led_file.state[led_hist[i].url] = <<"iso8601", led_hist[i].ts>>
             /\ (i + 2 <= Len(led_hist) /\ led_hist[i + 2].op = "was_notified"
                   /\ led_hist[i + 2].url = led_hist[i].url)
                  => led_hist[i + 2].value = "True"

\* url 2 marked with timestamp 2, a store opened anew, and was_notified(2)
\* answered true
C25_Witness ==
    /\ Len(led_hist) = 3
    /\ Returned(1, "mark_notified") /\ led_hist[1].url = 2 /\ led_hist[1].ts = 2
    /\ Returned(2, "open") /\ ~led_hist[2].wrote
    /\ Returned(3, "was_notified") /\ led_hist[3].url = 2
    /\ led_hist[3].value = "True"
    /\ led_file.state[2] = <<"iso8601", 2>>

\* the file was damaged before call i and no mark_notified returned since
DamagedBefore(i) ==
    \E j \in 1..(i - 1) :
        /\ led_hist[j].op \in {"corrupt", "undecodable"}
        /\ \A k \in (j + 1)..(i - 1) : ~Returned(k, "mark_notified")

\* C26: whatever the file holds, constructing the store and every ledger
\* call complete without raising, and was_notified answers false for every
\* url from the damage until the next mark_notified.
C26_CorruptionTolerance ==
    /\ \A i \in 1..Len(led_hist) : led_hist[i].raised = None
    /\ \A i \in 1..Len(led_hist) :
         (led_hist[i].op = "was_notified" /\ DamagedBefore(i))
           => led_hist[i].value = "False"

\* C27: mark_notified(u) and clear_notification(u) leave the presence and
\* the value of every other key of the persisted mapping as they were, and
\* was_notified leaves the file as it was.
C27_PerKey ==
    [][LedgerStep =>
         LET call == led_hist'[Len(led_hist')]
             before == Persisted(led_file)
             after == Persisted(led_file')
         IN /\ (call.op \in {"mark_notified", "clear_notification"}
                  /\ call.raised = None)
                 => \A k \in URLs \ {call.url} :
                      /\ k \in DOMAIN after <=> k \in DOMAIN before
                      /\ k \in DOMAIN before => after[k] = before[k]
            /\ call.op = "was_notified"
                 => (led_file' = led_file /\ ~call.wrote)]_vars

\* urls 1 and 2 marked, url 1 cleared: url 2 keeps its entry
C27_Witness ==
    /\ Len(led_hist) = 3
    /\ Returned(1, "mark_notified") /\ led_hist[1].url = 1
    /\ Returned(2, "mark_notified") /\ led_hist[2].url = 2 /\ led_hist[2].ts = 2
    /\ Returned(3, "clear_notification") /\ led_hist[3].url = 1
    /\ DOMAIN led_file.state = {2}
    /\ led_file.state[2] = isoformat(2)

\* C28: after clear_notification(url) returns the persisted mapping has no
\* entry for url and a was_notified(url) made next answers false, whether
\* or not url had an entry; when it had none the call writes nothing and the
\* file is as it was.
C28_ClearNotification ==
    /\ [][(LedgerStep /\ led_hist'[Len(led_hist')].op = "clear_notification"
             /\ led_hist'[Len(led_hist')].raised = None)
            => LET call == led_hist'[Len(led_hist')]
               IN /\ call.url \notin DOMAIN Persisted(led_file')
                  /\ call.wrote <=> call.url \in DOMAIN Persisted(led_file)
                  /\ ~call.wrote => led_file' = led_file]_vars
    /\ [][(LedgerStep /\ Returned(Len(led_hist), "clear_notification")
             /\ led_hist'[Len(led_hist')].op = "was_notified"
             /\ led_hist'[Len(led_hist')].url = LastCall.url)
            => led_hist'[Len(led_hist')].value = "False"]_vars

\* url 1 holds an entry; clearing url 2, which has none, writes nothing, and
\* was_notified(2) answers false
C28_Witness ==
    /\ Len(led_hist) = 3
    /\ Returned(1, "mark_notified") /\ led_hist[1].url = 1
    /\ Returned(2, "clear_notification") /\ led_hist[2].url = 2
    /\ ~led_hist[2].wrote
    /\ Returned(3, "was_notified") /\ led_hist[3].url = 2
    /\ led_hist[3].value = "False"
    /\ DOMAIN led_file.state = {1}

(***************************************************************************)
(* Properties of get_earliest_delivery_date and of the notifier's          *)
(* send_error and send_success.                                            *)
(***************************************************************************)
DeliveryCalled == last_call.op = "get_earliest_delivery_date"

\* the entry M-D-YYYY names a day of the calendar
WireValid(w) == w[1] \in 1..12 /\ w[2] \in 1..DaysInMonth(w[1], w[3])

\* the entry M-D-YYYY is a later day than today (year, month, day)
WireLater(w, today) ==
    \/ w[3] > today[1]
    \/ w[3] = today[1] /\ w[1] > today[2]
    \/ w[3] = today[1] /\ w[1] = today[2] /\ w[2] > today[3]

\* the positions of the entries dated strictly after today
Future(dates, today) ==
    {i \in 1..Len(dates) : WireValid(dates[i]) /\ WireLater(dates[i], today)}

Least(S) == CHOOSE i \in S : \A j \in S : i <= j

\* YYYY-MM-DD of the entry: the year, two month digits, two day digits
Normalized(w) == <<w[3], w[1] \div 10, w[1] % 10, w[2] \div 10, w[2] % 10>>

\* C32: get_earliest_delivery_date returns, as YYYY-MM-DD, the first entry
\* in response order dated strictly after today; for the options 3-5-2024,
\* 3-6-2024 and today 2024-03-04 it returns 2024-03-05.
C32_EarliestDeliveryDate ==
    DeliveryCalled
      => LET dates == last_call.resp.dates
             future == Future(dates, last_call.today)
         IN  /\ future # {}
                  => /\ last_call.out.raised = None
                     /\ last_call.out.value = Normalized(dates[Least(future)])
             /\ (dates = <<(<<3, 5, 2024>>), (<<3, 6, 2024>>)>>
                   /\ last_call.today = <<2024, 3, 4>>)
                  => last_call.out.value = <<2024, 0, 3, 0, 5>>

\* today is 2024-03-05: the entry 3-5-2024 was passed over and 2024-03-06
\* returned
C32_Witness ==
    /\ DeliveryCalled
    /\ last_call.resp.dates = <<(<<3, 5, 2024>>), (<<3, 6, 2024>>)>>
    /\ last_call.today = <<2024, 3, 5>>
    /\ last_call.out.raised = None
    /\ last_call.out.value = <<2024, 0, 3, 0, 6>>

\* C33: get_earliest_delivery_date raises PurchaseError when the response
\* yields no options and when no option is a date strictly after today
\* (unparsable options count for none); a date it returns is one of the
\* options and strictly after today.
C33_EarliestDeliveryDateFailure ==
    DeliveryCalled
      => LET dates == last_call.resp.dates
             future == Future(dates, last_call.today)
         IN  /\ last_call.out.raised \in {None, "PurchaseError"}
             /\ future = {}
                  => /\ last_call.out.raised = "PurchaseError"
                     /\ last_call.out.value = <<>>
             /\ last_call.out.raised = None
                  => \E i \in future : last_call.out.value = Normalized(dates[i])

\* an unparsable option and an option dated today: PurchaseError
C33_Witness ==
    /\ DeliveryCalled
    /\ last_call.resp.end = "ok"
    /\ last_call.resp.dates = <<(<<13, 45, 2024>>), (<<3, 5, 2024>>)>>
    /\ last_call.today = <<2024, 3, 5>>
    /\ last_call.out.raised = "PurchaseError"

NotifierCalled == last_call.op \in {"send_error", "send_success"}

\* C35: send_error and send_success raise nothing whatever the webhook call
\* does, and return true exactly when the webhook call succeeded.
C35_SendNeverRaises ==
    NotifierCalled
      => /\ last_call.out.raised = None
         /\ last_call.out.value \in {"True", "False"}
         /\ last_call.out.value = "True" <=> last_call.end = "ok"

\* the webhook answered send_error with an HTTP error status: false, nothing
\* raised
C35_Witness ==
    /\ last_call.op = "send_error" /\ last_call.end = "http"
    /\ last_call.out.value = "False" /\ last_call.out.raised = None
    /\ calls_made = 2

====
